---- MODULE Spec2Model ----
(***************************************************************************)
(* Model of the semantic query-understanding and hybrid ranking engine of  *)
(* backend/nlp_service.py and of its callers in backend/main.py.           *)
(*                                                                         *)
(* Strings are sequences of code points (97 = "a", 65 = "A", 32 = " ",     *)
(* 233 = e-acute, ...), so that norm_txt, substring tests and the sorted   *)
(* order of tokens are computed, not assumed.  Optional values are <<>>    *)
(* (Python None) or <<v>>.  Real numbers are fixed-point integers; the     *)
(* unit is stated where a quantity is introduced.                          *)
(***************************************************************************)
EXTENDS Integers, Sequences, FiniteSets, TLC

VARIABLES
    pc,          \* position of the running operation
    corpus,      \* df_listings: [cols: set of column names, rows: Seq(listing)]
    spec,        \* the filter spec handed to apply_filters_ml
    result,      \* what apply_filters_ml returned: [status, rows (kept index labels)]
    spec0,       \* the spec of the previous apply_filters_ml call
    result0,     \* the result of the previous apply_filters_ml call
    index,       \* the ranker's view of the corpus: per listing, its columns and its
                 \* similarities to the current query
    cand,        \* candidates.index.values: the index labels handed to the ranker
    score,       \* the __score column, one entry per candidate (<<>> is NaN)
    ranked,      \* the index labels in the order rerank_semantic_with_lex returns
    df_amen,     \* the amenity columns of df_listings at startup, one record per
                 \* listing: amenities, amenities_norm, amenities_canon
    ALL_AMEN_TOKENS,   \* nlp_service globals written by build_amenity_clusters
    AMEN_CLUSTER_ID,
    tok_freq,
    AMEN_CANON,
    CANON_LIST,
    CANON_MEMBERS,
    CANON_TOKENS,
    CANON_MERGE,
    df_text,     \* the text columns of df_listings, one record per listing:
                 \* name, description, each a sequence of words
    listing_texts,       \* main.py globals written by lifespan
    listing_embeddings,  \* one row per text of the encoded list: [of: the text]
    emb_file,    \* data/listing_embeddings.npy: [exists, loads, rows]
    X_tfidf,     \* nlp_service global written by build_tfidf_index: per listing,
                 \* its words of the fitted vocabulary
    pools,       \* nlp_service globals written by build_label_pools
    query,       \* the query being parsed, with what spaCy and the embedding model
                 \* return for it
    calls,       \* the extractor calls made on the query: [fn, th_margin, out]
    located,     \* what neighborhoods_groups_from_query returned: [neighs, groups]
    response,    \* what the search endpoint answered: [status, body]
    cache,       \* the lru_cache of cached_parse_query: its entries [key, value],
                 \* the least recently used first
    loop,        \* the asyncio event loop of the server: the clock in seconds, the
                 \* ready queue, the timer heap, the handles left in this iteration
    reqs         \* the /search requests the server has received, one record each

filterVars == <<corpus, spec, result, spec0, result0>>
rankVars == <<index, cand, score, ranked>>
amenVars == <<ALL_AMEN_TOKENS, AMEN_CLUSTER_ID, tok_freq, AMEN_CANON, CANON_LIST, CANON_MEMBERS,
              CANON_TOKENS, CANON_MERGE>>
textVars == <<df_text, listing_texts, listing_embeddings, emb_file, X_tfidf>>
buildVars == <<df_amen, amenVars, textVars>>
queryVars == <<pools, query, calls, located, response>>
serverVars == <<cache, loop, reqs>>
vars == <<pc, filterVars, rankVars, buildVars, queryVars, serverVars>>

-----------------------------------------------------------------------------
(* Generic helpers *)

None == <<>>
Some(v) == <<v>>
IsNone(o) == o = <<>>
Val(o) == o[1]

\* the values of a sequence or of a dict
Range(s) == {s[i] : i \in DOMAIN s}

\* the concatenation of the sequences of ss, by halves
RECURSIVE Concat(_)
Concat(ss) ==
    IF ss = <<>> THEN <<>>
    ELSE IF Len(ss) = 1 THEN ss[1]
    ELSE Concat(SubSeq(ss, 1, Len(ss) \div 2)) \o Concat(SubSeq(ss, Len(ss) \div 2 + 1, Len(ss)))

SeqMap(Op(_), s) == [i \in DOMAIN s |-> Op(s[i])]

\* Sequences over S of length lo..hi
SeqsUpTo(S, lo, hi) == UNION {[1..n -> S] : n \in lo..hi}

-----------------------------------------------------------------------------
(* Text Normalizer: strip_accents, norm_txt *)

\* unicodedata.normalize('NFD', ch): canonical decomposition of one code point
\* (193 A-acute, 225 a-acute, 233 e-acute, 241 n-tilde; 769/771 combining marks)
NFD(c) ==
    CASE c = 193 -> <<65, 769>>
      [] c = 225 -> <<97, 769>>
      [] c = 233 -> <<101, 769>>
      [] c = 241 -> <<110, 771>>
      [] OTHER -> <<c>>

\* unicodedata.category(ch) = 'Mn' (combining diacritical marks block)
IsMn(c) == c \in 768..879

strip_accents(s) == SelectSeq(Concat(SeqMap(NFD, s)), LAMBDA c : ~IsMn(c))

\* str.lower() on one code point
LowerChar(c) == IF c \in 65..90 THEN c + 32 ELSE c

\* \s of the re module: tab, newline, space
IsSpace(c) == c \in {9, 10, 32}

RECURSIVE LStrip(_)
LStrip(s) == IF s # <<>> /\ IsSpace(Head(s)) THEN LStrip(Tail(s)) ELSE s

RECURSIVE RStrip(_)
RStrip(s) ==
    IF s # <<>> /\ IsSpace(s[Len(s)]) THEN RStrip(SubSeq(s, 1, Len(s) - 1)) ELSE s

Strip(s) == RStrip(LStrip(s))

\* re.sub(r'\s+', ' ', s)
\* two collapsed halves put together: a run of white space across the seam
\* is the one space that ends the left half
JoinCollapsed(a, b) ==
    IF a # <<>> /\ b # <<>> /\ a[Len(a)] = 32 /\ b[1] = 32 THEN a \o Tail(b) ELSE a \o b

RECURSIVE CollapseSpaces(_)
CollapseSpaces(s) ==
    IF s = <<>> THEN <<>>
    ELSE IF Len(s) = 1 THEN (IF IsSpace(s[1]) THEN <<32>> ELSE s)
    ELSE JoinCollapsed(CollapseSpaces(SubSeq(s, 1, Len(s) \div 2)),
                       CollapseSpaces(SubSeq(s, Len(s) \div 2 + 1, Len(s))))

norm_txt(s) == CollapseSpaces(Strip(SeqMap(LowerChar, strip_accents(s))))

\* Python's `sub in s` for strings
Contains(s, sub) ==
    \E i \in 1..(Len(s) - Len(sub) + 1) : SubSeq(s, i, i + Len(sub) - 1) = sub

-----------------------------------------------------------------------------
(* Filter Engine: amenities_family_satisfied, apply_filters_ml *)

\* Column names of df_listings that apply_filters_ml tests for presence
OptionalCols == {"minimum_nights", "maximum_nights", "amenities_canon", "has_availability"}

amenities_family_satisfied(list_canon, required_canon) ==
    IF required_canon = <<>> THEN TRUE
    ELSE IF list_canon = <<>> THEN FALSE
    ELSE \A i \in DOMAIN required_canon : required_canon[i] \in Range(list_canon)

\* A comparison of a column value with a scalar: False on a missing value (NaN)
GeOpt(o, x) == ~IsNone(o) /\ Val(o) >= x
LeOpt(o, x) == ~IsNone(o) /\ Val(o) <= x

\* One term of the mask m for one row; each is TRUE when its `if` is not taken
MaskGroups_NoGuard(row, sp) ==
    norm_txt(row.neighbourhood_group_cleansed) \in Range(sp.neigh_groups)

MaskGroups(row, sp) ==
    sp.neigh_groups # <<>> =>
        norm_txt(row.neighbourhood_group_cleansed) \in Range(sp.neigh_groups)

MaskNeighbourhoods(row, sp) ==
    sp.neighbourhoods # <<>> =>
        norm_txt(row.neighbourhood_cleansed) \in Range(sp.neighbourhoods)

MaskGuests(row, sp) ==
    ~IsNone(sp.guests) => row.accommodates >= Val(sp.guests)

MaskNights(cols, row, sp) ==
    (~IsNone(sp.nights) /\ {"minimum_nights", "maximum_nights"} \subseteq cols) =>
        (LeOpt(row.minimum_nights, Val(sp.nights)) /\ GeOpt(row.maximum_nights, Val(sp.nights)))

MaskPriceMin(row, sp) ==
    ~IsNone(sp.price_min) => row.price >= Val(sp.price_min)

MaskPriceMax_Flipped(row, sp) ==
    ~IsNone(sp.price_max) => row.price >= Val(sp.price_max)

MaskPriceMax(row, sp) ==
    ~IsNone(sp.price_max) => row.price <= Val(sp.price_max)

MaskRoomType(row, sp) ==
    ~IsNone(sp.room_type) => norm_txt(row.room_type) = norm_txt(Val(sp.room_type))

\* the spec value passed to norm_txt without the None test: str(None) = "None"
MaskPropertyType_NoGuard(row, sp) ==
    Contains(norm_txt(row.property_type),
             norm_txt(IF IsNone(sp.property_type) THEN <<78, 111, 110, 101>>
                      ELSE Val(sp.property_type)))

MaskPropertyType(row, sp) ==
    ~IsNone(sp.property_type) =>
        Contains(norm_txt(row.property_type), norm_txt(Val(sp.property_type)))

MaskAmenities(row, sp) ==
    sp.amenities_all # <<>> =>
        amenities_family_satisfied(row.amenities_canon, sp.amenities_all)

MaskAvailability(cols, row) ==
    "has_availability" \in cols => row.has_availability = Some(TRUE)

RowMask(cols, row, sp) ==
    /\ MaskGroups(row, sp)
    /\ MaskNeighbourhoods(row, sp)
    /\ MaskGuests(row, sp)
    /\ MaskNights(cols, row, sp)
    /\ MaskPriceMin(row, sp)
    /\ MaskPriceMax(row, sp)
    /\ MaskRoomType(row, sp)
    /\ MaskPropertyType(row, sp)
    /\ MaskAmenities(row, sp)
    /\ MaskAvailability(cols, row)

\* df.loc[m]: the index labels of the rows whose mask is True, in index order
RECURSIVE LocMask(_, _, _, _)
LocMask(cols, rows, sp, i) ==
    IF i > Len(rows) THEN <<>>
    ELSE (IF RowMask(cols, rows[i], sp) THEN <<i>> ELSE <<>>)
         \o LocMask(cols, rows, sp, i + 1)

\* the same with the column demanded of every corpus, whatever the spec asks
apply_filters_ml_Strict(df, sp) ==
    IF "amenities_canon" \notin df.cols
    THEN [status |-> "ValueError", rows |-> <<>>]
    ELSE [status |-> "ok", rows |-> LocMask(df.cols, df.rows, sp, 1)]

\* apply_filters_ml(df, spec): the kept index labels, or the ValueError of line 630
apply_filters_ml(df, sp) ==
    IF sp.amenities_all # <<>> /\ "amenities_canon" \notin df.cols
    THEN [status |-> "ValueError", rows |-> <<>>]
    ELSE [status |-> "ok", rows |-> LocMask(df.cols, df.rows, sp, 1)]

-----------------------------------------------------------------------------
(* Inputs of the filter engine.  Raw strings used below: "Ce" and
   "c<e-acute>" (both normalize to "ce"), "No"; "So", " LA"; "Er", "Pr";
   "Lo", "A  lo" (two spaces), "Vi"; canonical amenity labels "wi", "ki". *)

MaxListings == 2

\* canonical amenity labels "wi", "ki"
LabelWi == <<119, 105>>
LabelKi == <<107, 105>>

Listing(g, n, acc, mn, mx, p, rt, pt, am, av) ==
    [neighbourhood_group_cleansed |-> g, neighbourhood_cleansed |-> n,
     accommodates |-> acc, minimum_nights |-> mn, maximum_nights |-> mx,
     price |-> p, room_type |-> rt, property_type |-> pt,
     amenities_canon |-> am, has_availability |-> av]

ListingPool ==
    { Listing(<<67, 101>>, <<83, 111>>, 2, Some(1), Some(30), 90,
              <<69, 114>>, <<76, 111>>, <<LabelKi, LabelWi>>, Some(TRUE)),
      Listing(<<99, 233>>, <<32, 76, 65>>, 4, Some(3), Some(10), 150,
              <<80, 114>>, <<65, 32, 32, 108, 111>>, <<LabelWi>>, Some(TRUE)),
      Listing(<<78, 111>>, <<83, 111>>, 1, None, Some(2), 60,
              <<69, 114>>, <<86, 105>>, <<>>, Some(FALSE)) }

\* The column sets a corpus may come with
ColSets ==
    { OptionalCols,
      OptionalCols \ {"minimum_nights", "maximum_nights"},
      OptionalCols \ {"amenities_canon"},
      OptionalCols \ {"has_availability"} }

\* A row of a frame that lacks a column carries no value for it
Project(cols, row) ==
    [row EXCEPT
        !.minimum_nights = IF "minimum_nights" \in cols THEN @ ELSE None,
        !.maximum_nights = IF "maximum_nights" \in cols THEN @ ELSE None,
        !.amenities_canon = IF "amenities_canon" \in cols THEN @ ELSE <<>>,
        !.has_availability = IF "has_availability" \in cols THEN @ ELSE None]

Corpora ==
    { [cols |-> cs, rows |-> [i \in DOMAIN rs |-> Project(cs, rs[i])]] :
        cs \in ColSets, rs \in SeqsUpTo(ListingPool, 1, MaxListings) }

\* The filter fields of a parsed spec (parse_user_query_ml, lines 568-576)
FilterSpecs ==
    [neigh_groups : {<<>>, <<(<<99, 101>>)>>},
     neighbourhoods : {<<>>, <<(<<115, 111>>)>>},
     guests : {None, Some(2)},
     nights : {None, Some(2)},
     price_min : {None, Some(80)},
     price_max : {None, Some(100)},
     room_type : {None, Some(<<69, 114>>)},
     property_type : {None, Some(<<108, 111>>)},
     amenities_all : {<<>>, <<LabelWi>>, <<LabelWi, LabelKi>>}]

EmptySpec ==
    [neigh_groups |-> <<>>, neighbourhoods |-> <<>>, guests |-> None, nights |-> None,
     price_min |-> None, price_max |-> None, room_type |-> None,
     property_type |-> None, amenities_all |-> <<>>]

SpecFields == DOMAIN EmptySpec

\* A field is absent when it is None or an empty list
Absent(sp, f) == sp[f] = <<>>

NoResult == [status |-> "none", rows |-> <<>>]

IdleFilter ==
    /\ corpus = [cols |-> {}, rows |-> <<>>]
    /\ spec = EmptySpec
    /\ result = NoResult
    /\ spec0 = EmptySpec
    /\ result0 = NoResult

IdleRank ==
    /\ index = <<>>
    /\ cand = <<>>
    /\ score = <<>>
    /\ ranked = <<>>

\* the module globals of nlp_service.py as the import leaves them (lines 29-38)
EmptyGlobals ==
    /\ ALL_AMEN_TOKENS = <<>>
    /\ AMEN_CLUSTER_ID = <<>>
    /\ tok_freq = <<>>
    /\ AMEN_CANON = <<>>
    /\ CANON_LIST = <<>>
    /\ CANON_MEMBERS = <<>>
    /\ CANON_TOKENS = <<>>
    /\ CANON_MERGE = <<>>

NoFile == [exists |-> FALSE, loads |-> FALSE, rows |-> <<>>]

\* listing_texts, listing_embeddings and X_tfidf are None after the import
\* (main.py:45-46, nlp_service.py:26)
NoTexts ==
    /\ listing_texts = <<>>
    /\ listing_embeddings = <<>>
    /\ X_tfidf = <<>>

IdleBuild ==
    /\ df_amen = <<>>
    /\ EmptyGlobals
    /\ df_text = <<>>
    /\ NoTexts
    /\ emb_file = NoFile

\* the label pools as the import leaves them (lines 40-56)
EmptyPools ==
    [neigh_norm |-> <<>>, group_norm |-> <<>>, room_norm |-> <<>>, prop_norm |-> <<>>,
     group_to_neigh |-> <<>>, neigh_to_group |-> <<>>,
     ROOM_CONTENT_TOKENS |-> <<>>, PROP_CONTENT_TOKENS |-> <<>>]

NoQuery == [text |-> <<>>, phrases |-> <<>>]
NoLocation == [neighs |-> {}, groups |-> {}]
NoResponse == [status |-> 0, body |-> <<>>]

IdleQuery ==
    /\ pools = EmptyPools
    /\ query = NoQuery
    /\ calls = {}
    /\ located = NoLocation
    /\ response = NoResponse

\* the server before its first request: an empty parse cache and an event
\* loop with nothing to run
IdleLoop ==
    [now |-> 0, ready |-> <<>>, timers |-> {}, todo |-> 0,
     wait_for |-> "waiter", timers_first |-> FALSE]

IdleServer ==
    /\ cache = <<>>
    /\ loop = IdleLoop
    /\ reqs = <<>>

-----------------------------------------------------------------------------
(* The filter engine as a state machine: one call, then a call with one
   predicate of the same spec removed *)

InitFilter ==
    /\ pc = "start"
    /\ corpus \in Corpora
    /\ spec = EmptySpec
    /\ result = NoResult
    /\ spec0 = EmptySpec
    /\ result0 = NoResult
    /\ IdleRank
    /\ IdleBuild
    /\ IdleQuery
    /\ IdleServer

\* filtered = nlp_service.apply_filters_ml(df_listings, spec)
ApplyFilters ==
    /\ pc = "start"
    /\ \E sp \in FilterSpecs :
        /\ spec' = sp
        /\ result' = apply_filters_ml(corpus, sp)
    /\ pc' = "filtered"
    /\ UNCHANGED <<corpus, spec0, result0, rankVars, buildVars, queryVars, serverVars>>

\* The same call with field f of the spec set absent
ApplyRelaxed ==
    /\ pc = "filtered"
    /\ \E f \in SpecFields :
        /\ ~Absent(spec, f)
        /\ spec' = [spec EXCEPT ![f] = <<>>]
        /\ result' = apply_filters_ml(corpus, spec')
    /\ spec0' = spec
    /\ result0' = result
    /\ pc' = "relaxed"
    /\ UNCHANGED <<corpus, rankVars, buildVars, queryVars, serverVars>>

NextFilter == ApplyFilters \/ ApplyRelaxed

SpecFilter == InitFilter /\ [][NextFilter]_vars

-----------------------------------------------------------------------------
(* Hybrid Ranker: lexical_similarities, rerank_semantic_with_lex.

   Fixed point: similarities and signals are in thousandths (1000 = 1.0),
   rounded down; a rating is in tenths of a point (48 = 4.8), so that
   rating / 100.0 in thousandths is the same integer; a per-guest price is
   in hundredths of the currency unit; a score is in units of 1e-5, the
   weights being in hundredths. *)

w_sem == 55
w_lex == 20
w_rating == 15
w_price == 10

SeqMax(s) == CHOOSE x \in Range(s) : \A y \in Range(s) : y <= x
SeqMin(s) == CHOOSE x \in Range(s) : \A y \in Range(s) : x <= y

Clip(x, lo, hi) == IF x < lo THEN lo ELSE IF x > hi THEN hi ELSE x

\* the same with 0 for every listing when the raw cosines are all equal
lexical_similarities_ZeroWhenFlat(raw) ==
    IF raw # <<>> /\ SeqMax(raw) > SeqMin(raw)
    THEN [i \in DOMAIN raw |->
            ((raw[i] - SeqMin(raw)) * 1000) \div (SeqMax(raw) - SeqMin(raw))]
    ELSE [i \in DOMAIN raw |-> 0]

\* lexical_similarities(query): the raw cosines over the whole index,
\* min-max rescaled when they are not all equal
lexical_similarities(raw) ==
    IF raw # <<>> /\ SeqMax(raw) > SeqMin(raw)
    THEN [i \in DOMAIN raw |->
            ((raw[i] - SeqMin(raw)) * 1000) \div (SeqMax(raw) - SeqMin(raw))]
    ELSE raw

\* np.clip((sem + 1) / 2, 0, 1)
SemSignal(cos) == Clip((cos + 1000) \div 2, 0, 1000)

\* candidates.get('review_scores_rating', ...).fillna(0.0) / 100.0
RatingSignal(row) ==
    IF IsNone(row.review_scores_rating) THEN 0 ELSE Val(row.review_scores_rating)

\* ppg.fillna(price / accommodates.replace(0, nan)); <<>> is NaN
PricePerGuest(row) ==
    IF ~IsNone(row.price_per_guest) THEN row.price_per_guest
    ELSE IF IsNone(row.accommodates) \/ row.accommodates = Some(0) THEN None
    ELSE Some((row.price * 100) \div Val(row.accommodates))

\* ((ppg - pmin) / (pmax - pmin + 1e-9)).clip(0, 1) for candidate k; pmin and
\* pmax skip NaN; the 1e-9 decides the quotient only when pmax = pmin
PriceSignal(rows, cnd, k) ==
    LET ppg == [j \in DOMAIN cnd |-> PricePerGuest(rows[cnd[j]])]
        known == {Val(ppg[j]) : j \in {i \in DOMAIN cnd : ~IsNone(ppg[i])}}
        pmin == CHOOSE x \in known : \A y \in known : x <= y
        pmax == CHOOSE x \in known : \A y \in known : y <= x
    IN  IF IsNone(ppg[k]) THEN None
        ELSE IF pmax = pmin THEN Some(0)
        ELSE Some(Clip(((Val(ppg[k]) - pmin) * 1000) \div (pmax - pmin), 0, 1000))

\* score = w_sem * sem + w_lex * lex + w_rating * rating + w_price * (1.0 - price)
ScoreOf(rows, cnd, k) ==
    LET row == rows[cnd[k]]
        lex_all == lexical_similarities([i \in DOMAIN rows |-> rows[i].lex_raw])
        price == PriceSignal(rows, cnd, k)
    IN  IF IsNone(price) THEN None
        ELSE Some(w_sem * SemSignal(row.sem_cos) + w_lex * lex_all[cnd[k]]
                  + w_rating * RatingSignal(row) + w_price * (1000 - Val(price)))

\* One sort key, descending, NaN last (na_position = 'last')
DescBefore(x, y) == ~IsNone(x) /\ (IsNone(y) \/ Val(x) > Val(y))

\* sort_values(['__score', 'review_scores_rating', 'price'],
\*             ascending=[False, False, True]): a sorts strictly before b
SortsBefore(a, b) ==
    \/ DescBefore(a.score, b.score)
    \/ /\ a.score = b.score
       /\ \/ DescBefore(a.rating, b.rating)
          \/ (a.rating = b.rating /\ a.price < b.price)

\* the same with a new element put in front of the elements it ties with
RECURSIVE InsertUnstable(_, _)
InsertUnstable(s, x) ==
    IF s = <<>> THEN <<x>>
    ELSE IF ~SortsBefore(Head(s), x) THEN <<x>> \o s
    ELSE <<Head(s)>> \o InsertUnstable(Tail(s), x)

\* kind='mergesort': an element goes after every element it does not sort before
RECURSIVE InsertStable(_, _)
InsertStable(s, x) ==
    IF s = <<>> THEN <<x>>
    ELSE IF SortsBefore(x, Head(s)) THEN <<x>> \o s
    ELSE <<Head(s)>> \o InsertStable(Tail(s), x)

RECURSIVE SortValues(_, _)
SortValues(keys, n) ==
    IF n = 0 THEN <<>> ELSE InsertStable(SortValues(keys, n - 1), keys[n])

\* rerank_semantic_with_lex(candidates, query, listing_embeddings): the scores
\* of the candidates and the index labels in output order
rerank_semantic_with_lex(rows, cnd) ==
    IF cnd = <<>> THEN [score |-> <<>>, ranked |-> <<>>]
    ELSE LET sc == [k \in DOMAIN cnd |-> ScoreOf(rows, cnd, k)]
             keys == [k \in DOMAIN cnd |->
                        [label |-> cnd[k], score |-> sc[k],
                         rating |-> rows[cnd[k]].review_scores_rating,
                         price |-> rows[cnd[k]].price]]
             out == SortValues(keys, Len(cnd))
         IN  [score |-> sc, ranked |-> [k \in DOMAIN out |-> out[k].label]]

(* Inputs of the ranker *)

MaxIndex == 3

RankRow(r, p, acc, ppg, cos, lex) ==
    [review_scores_rating |-> r, price |-> p, accommodates |-> acc,
     price_per_guest |-> ppg, sem_cos |-> cos, lex_raw |-> lex]

\* Listings as the ranker sees them for one query
RankPool ==
    { RankRow(Some(48), 60, Some(2), None, 600, 500),
      RankRow(Some(48), 120, Some(4), Some(3000), 600, 500),
      RankRow(Some(0), 60, Some(2), Some(3000), 600, 500),
      RankRow(None, 60, Some(2), Some(3000), 600, 500),
      RankRow(Some(42), 200, Some(1), Some(20000), 1001, 900),
      RankRow(Some(50), 90, Some(3), Some(3000), -1000, 0),
      RankRow(Some(45), 90, Some(0), None, 200, 0),
      RankRow(None, 80, None, None, 200, 300) }

\* increasing sequences of index labels: the index of a filtered frame
Ascending(S) ==
    [k \in 1..Cardinality(S) |-> CHOOSE x \in S : Cardinality({y \in S : y < x}) = k - 1] @@ <<>>

(* The ranker as a state machine *)

InitRank ==
    /\ pc = "start"
    /\ IdleFilter
    /\ IdleBuild
    /\ IdleQuery
    /\ IdleServer
    /\ index \in SeqsUpTo(RankPool, 1, MaxIndex)
    /\ cand = <<>>
    /\ score = <<>>
    /\ ranked = <<>>

\* ranked = nlp_service.rerank_semantic_with_lex(filtered, query, listing_embeddings)
Rerank ==
    /\ pc = "start"
    /\ \E S \in SUBSET (DOMAIN index) :
        LET out == rerank_semantic_with_lex(index, Ascending(S))
        IN  /\ cand' = Ascending(S)
            /\ score' = out.score
            /\ ranked' = out.ranked
    /\ pc' = "ranked"
    /\ UNCHANGED <<index, filterVars, buildVars, queryVars, serverVars>>

NextRank == Rerank

SpecRank == InitRank /\ [][NextRank]_vars

-----------------------------------------------------------------------------
(* Amenity Canonicalizer: prepare_amenities_norm, build_amenity_clusters, and
   the amenities_canon column computed by lifespan *)

\* Python's order on strings: by code point, a proper prefix first
RECURSIVE LexLess(_, _)
LexLess(a, b) ==
    IF b = <<>> THEN FALSE
    ELSE IF a = <<>> THEN TRUE
    ELSE IF Head(a) # Head(b) THEN Head(a) < Head(b)
    ELSE LexLess(Tail(a), Tail(b))

\* A function or sequence as an explicit table of its values
Table(f) == f @@ <<>>

\* the position of each string of S in sorted(S)
SortedPos(S) == Table([t \in S |-> Cardinality({u \in S : LexLess(u, t)}) + 1])

SeqOfPos(pos) == Table([i \in 1..Cardinality(DOMAIN pos) |-> CHOOSE t \in DOMAIN pos : pos[t] = i])

\* sorted(S) for a set of strings
Sorted(S) == SeqOfPos(SortedPos(S))

\* dict.get(key) with None for a missing key
Get(d, k) == IF k \in DOMAIN d THEN Some(d[k]) ELSE None

\* parse_amenities_to_list(a) for a list a: [str(x).strip().lower() for x in a if x]
parse_amenities_to_list(a) ==
    LET kept == SelectSeq(a, LAMBDA x : x # <<>>)
    IN  [i \in DOMAIN kept |-> SeqMap(LowerChar, Strip(kept[i]))]

\* [norm_txt(x) for x in row if x], over every row (the `if row` test adds nothing)
RowTokens(row) ==
    LET kept == SelectSeq(row, LAMBDA x : x # <<>>)
    IN  [i \in DOMAIN kept |-> norm_txt(kept[i])]

\* Counter.update over every row: occurrences of token t in the corpus
CountIn(toks, t) == Cardinality({i \in DOMAIN toks : toks[i] = t})

CountAll(all) == Table([t \in Range(all) |-> CountIn(all, t)])

TokFreq(norm_rows) ==
    CountAll(Concat([i \in DOMAIN norm_rows |-> RowTokens(norm_rows[i])]))

\* K = min(300, max(60, M // 8))
KMin == 60
KMax == 300
KDiv == 8
ClusterCount(M) ==
    LET k == IF M \div KDiv > KMin THEN M \div KDiv ELSE KMin
    IN  IF k < KMax THEN k ELSE KMax

\* the key of the sort with the later token of ALL_AMEN_TOKENS first among
\* the tied
KeyLess_LastFirst(freq, pos, a, b) ==
    \/ freq[a] > freq[b]
    \/ freq[a] = freq[b] /\ Len(a) < Len(b)
    \/ freq[a] = freq[b] /\ Len(a) = Len(b) /\ pos[a] > pos[b]

\* toks_sorted = sorted(toks, key=lambda t: (-tok_freq.get(t, 0), len(t))); the
\* sort is stable and toks is in the order of ALL_AMEN_TOKENS, so the first
\* element is the member least in (-freq, len, position in ALL_AMEN_TOKENS)
KeyLess(freq, pos, a, b) ==
    \/ freq[a] > freq[b]
    \/ freq[a] = freq[b] /\ Len(a) < Len(b)
    \/ freq[a] = freq[b] /\ Len(a) = Len(b) /\ pos[a] < pos[b]

PickCanon(toks, freq, pos) ==
    CHOOSE c \in toks : \A t \in toks \ {c} : KeyLess(freq, pos, c, t)

\* the representative taken from the whole vocabulary instead of the cluster
ClusterCanon_AnyToken(ids, freq, pos) ==
    Table([cid \in {ids[t] : t \in DOMAIN ids} |-> PickCanon(DOMAIN ids, freq, pos)])

\* CLUSTER_CANON (lines 154-163)
ClusterCanon(ids, freq, pos) ==
    Table([cid \in {ids[t] : t \in DOMAIN ids} |->
             PickCanon({t \in DOMAIN ids : ids[t] = cid}, freq, pos)])

\* AMEN_CANON (lines 164-165)
AmenCanon(ids, cc) == Table([t \in DOMAIN ids |-> cc[ids[t]]])

\* CANON_LIST = [CLUSTER_CANON[cid] for cid in sorted(CLUSTER_CANON.keys())]
CanonList(cc) ==
    LET cids == Ascending(DOMAIN cc) IN [k \in DOMAIN cids |-> cc[cids[k]]]

\* for tok, canon in AMEN_CANON.items(): CANON_MEMBERS.setdefault(canon, set()).add(tok)
CanonMembers(old, canon) ==
    Table([c \in DOMAIN old \cup Range(canon) |->
             (IF c \in DOMAIN old THEN old[c] ELSE {})
             \cup {t \in DOMAIN canon : canon[t] = c}])

(* Content tokens and the merge of near-duplicate labels *)

\* [a-zA-Z0-9]
IsAlnum(c) == c \in 48..57 \/ c \in 65..90 \/ c \in 97..122

\* re.findall(r"[a-zA-Z0-9]+", s), as a set: the maximal runs of s
FindAlnum(s) ==
    { SubSeq(s, i, j) :
        <<i, j>> \in { w \in (DOMAIN s) \X (DOMAIN s) :
                        /\ w[1] <= w[2]
                        /\ \A k \in w[1]..w[2] : IsAlnum(s[k])
                        /\ (w[1] = 1 \/ ~IsAlnum(s[w[1] - 1]))
                        /\ (w[2] = Len(s) \/ ~IsAlnum(s[w[2] + 1])) } }

\* the members of nlp.Defaults.stop_words (spaCy, English) that occur in the
\* texts below: "the", "with", "and", "for"
STOP == { <<116, 104, 101>>,
          <<119, 105, 116, 104>>,
          <<97, 110, 100>>,
          <<102, 111, 114>> }

\* "city", "center", "centre", "view", "area", "place", "space", "access",
\* "daily", "day", "night", "room"
GENERIC == { <<99, 105, 116, 121>>,
             <<99, 101, 110, 116, 101, 114>>,
             <<99, 101, 110, 116, 114, 101>>,
             <<118, 105, 101, 119>>,
             <<97, 114, 101, 97>>,
             <<112, 108, 97, 99, 101>>,
             <<115, 112, 97, 99, 101>>,
             <<97, 99, 99, 101, 115, 115>>,
             <<100, 97, 105, 108, 121>>,
             <<100, 97, 121>>,
             <<110, 105, 103, 104, 116>>,
             <<114, 111, 111, 109>> }

\* "standard", "estandar", "basic", "regular", "general"
GENERIC_MODIFIERS == { <<115, 116, 97, 110, 100, 97, 114, 100>>,
                       <<101, 115, 116, 97, 110, 100, 97, 114>>,
                       <<98, 97, 115, 105, 99>>,
                       <<114, 101, 103, 117, 108, 97, 114>>,
                       <<103, 101, 110, 101, 114, 97, 108>> }

content_tokens(s) ==
    {t \in FindAlnum(norm_txt(s)) : Len(t) >= 3 /\ t \notin STOP /\ t \notin GENERIC}

label_merge_key(label) ==
    LET toks == content_tokens(label) \ GENERIC_MODIFIERS
    IN  IF toks # {} THEN Sorted(toks) ELSE <<norm_txt(label)>>

IsHex(c) == c \in 48..57 \/ c \in 65..70 \/ c \in 97..102

\* re.search(r'\\u[0-9a-fA-F]{4}', label): a backslash, "u" and four hex digits
is_weird_unicode(label) ==
    \E i \in DOMAIN label :
        /\ i + 5 <= Len(label)
        /\ label[i] = 92 /\ label[i + 1] = 117
        /\ \A k \in (i + 2)..(i + 5) : IsHex(label[k])

ascii_ok(lbl) == \A i \in DOMAIN lbl : lbl[i] < 128

\* sort_key of _prefer_label: a before b
PreferBefore(freq, a, b) ==
    LET ka == <<IF is_weird_unicode(a) THEN 1 ELSE 0, IF ascii_ok(a) THEN 0 ELSE 1,
                0 - (IF a \in DOMAIN freq THEN freq[a] ELSE 0), Len(a)>>
        kb == <<IF is_weird_unicode(b) THEN 1 ELSE 0, IF ascii_ok(b) THEN 0 ELSE 1,
                0 - (IF b \in DOMAIN freq THEN freq[b] ELSE 0), Len(b)>>
    IN  \/ \E k \in 1..4 : ka[k] < kb[k] /\ \A m \in 1..(k - 1) : ka[m] = kb[m]
        \/ ka = kb /\ LexLess(norm_txt(a), norm_txt(b))

\* sorted(lbls, key=sort_key)[0], for labels that differ after norm_txt
_prefer_label(lbls, freq) ==
    CHOOSE a \in lbls : \A b \in lbls \ {a} : PreferBefore(freq, a, b)

\* CANON_TOKENS = {c: content_tokens(c) for c in CANON_LIST}
CanonTokens(list) == Table([c \in Range(list) |-> content_tokens(c)])

MergeOf(keys, freq) ==
    Table([c \in DOMAIN keys |-> _prefer_label({l \in DOMAIN keys : keys[l] = keys[c]}, freq)])

\* CANON_MERGE (lines 198-206): every label to the preferred label of its key
CanonMerge(list, freq) ==
    MergeOf(Table([c \in Range(list) |-> label_merge_key(c)]), freq)

\* fit_predict: one label in 0..K-1 per token.  The embedding geometry is not
\* modelled: the first MaxFree tokens may land in any of FreeLabels(K), the
\* others are dealt round-robin.
MaxFree == 2
FreeLabels(K) == {0, K - 1}
KMeansLabelings(M, K) ==
    { [i \in 1..M |-> IF i <= MaxFree /\ i \in DOMAIN f THEN f[i] ELSE (i - 1) % K] :
        f \in [1..(IF M < MaxFree THEN M ELSE MaxFree) -> FreeLabels(K)] }

\* sorted({AMEN_CANON.get(norm_txt(x)) for x in (xs or []) if AMEN_CANON.get(norm_txt(x))})
CanonColumn(canon, xs) ==
    Sorted({canon[norm_txt(xs[i])] :
              i \in {j \in DOMAIN xs : /\ norm_txt(xs[j]) \in DOMAIN canon
                                       /\ canon[norm_txt(xs[j])] # <<>>}})

(* Label pools: build_label_pools.  A string column holds a non-empty
   string, or <<>> for NaN. *)

NaN == <<>>

\* [norm_txt(x) for x in sorted(set(df[col].dropna().astype(str)))]
NormAll(vals) == [i \in DOMAIN vals |-> norm_txt(vals[i])]
LabelPool(rows, col) ==
    NormAll(Sorted({rows[i][col] : i \in {k \in DOMAIN rows : rows[k][col] # NaN}}))

\* the rows of df_geo: dropna() on both columns, then drop_duplicates()
GeoIndex(rows) ==
    { i \in DOMAIN rows :
        /\ rows[i].neighbourhood_group_cleansed # NaN
        /\ rows[i].neighbourhood_cleansed # NaN
        /\ \A k \in 1..(i - 1) :
              \/ rows[k].neighbourhood_group_cleansed # rows[i].neighbourhood_group_cleansed
              \/ rows[k].neighbourhood_cleansed # rows[i].neighbourhood_cleansed }

g_norm(rows, i) == norm_txt(rows[i].neighbourhood_group_cleansed)
n_norm(rows, i) == norm_txt(rows[i].neighbourhood_cleansed)

\* the mapping keyed by the raw group value instead of g_norm
GroupToNeigh_RawKeys(rows, geo) ==
    Table([g \in {rows[i].neighbourhood_group_cleansed : i \in geo} |->
             {n_norm(rows, i) : i \in {k \in geo : rows[k].neighbourhood_group_cleansed = g}}])

\* df_geo.groupby('g_norm')['n_norm'].apply(set).to_dict()
GroupToNeigh(rows, geo) ==
    Table([g \in {g_norm(rows, i) : i \in geo} |->
             {n_norm(rows, i) : i \in {k \in geo : g_norm(rows, k) = g}}])

\* {row.n_norm: row.g_norm for _, row in df_geo.iterrows()}: the last row wins
NeighToGroup(rows, geo) ==
    Table([n \in {n_norm(rows, i) : i \in geo} |->
             g_norm(rows, CHOOSE i \in geo :
                            /\ n_norm(rows, i) = n
                            /\ \A k \in geo : n_norm(rows, k) = n => k <= i)])

TokensOf(labels) == Table([l \in Range(labels) |-> content_tokens(l)])

PoolsOf(neigh, group, room, prop, rows, geo) ==
    [neigh_norm |-> neigh, group_norm |-> group, room_norm |-> room, prop_norm |-> prop,
     group_to_neigh |-> GroupToNeigh(rows, geo),
     neigh_to_group |-> NeighToGroup(rows, geo),
     ROOM_CONTENT_TOKENS |-> TokensOf(room),
     PROP_CONTENT_TOKENS |-> TokensOf(prop)]

build_label_pools(rows) ==
    PoolsOf(LabelPool(rows, "neighbourhood_cleansed"),
            LabelPool(rows, "neighbourhood_group_cleansed"),
            LabelPool(rows, "room_type"),
            LabelPool(rows, "property_type"),
            rows, GeoIndex(rows))

(* Inputs of the build *)

Fillers == 60
MaxExtra == 2

\* "z00", "z01", ...: the amenities of a listing that alone fills the vocabulary
Filler(i) == <<122, 48 + ((i \div 10) % 10), 48 + (i % 10)>> \o
             (IF i >= 100 THEN <<48 + (i \div 100)>> ELSE <<>>)
BaseAmenities == [i \in 1..Fillers |-> Filler(i - 1)]

\* <<"wifi", "Pool">>, <<" WIFI", "Caf<e-acute>">>,
\* <<"pool", " ", "<combining acute accent>">>, <<"spa", "Wifi", "Pool wifi">>
ExtraAmenities ==
    { <<<<119, 105, 102, 105>>, <<80, 111, 111, 108>>>>,
      <<<<32, 87, 73, 70, 73>>, <<67, 97, 102, 233>>>>,
      <<<<112, 111, 111, 108>>, <<32>>, <<769>>>>,
      <<<<115, 112, 97>>, <<87, 105, 102, 105>>, <<80, 111, 111, 108, 32, 119, 105, 102, 105>>>> }

\* "wifi router", "wi-fi", "high speed wifi"
SmallVocabulary ==
    <<<<119, 105, 102, 105, 32, 114, 111, 117, 116, 101, 114>>, <<119, 105, 45, 102, 105>>,
      <<104, 105, 103, 104, 32, 115, 112, 101, 101, 100, 32, 119, 105, 102, 105>>>>

\* the fillers, then listings with "Pool", with "pool" and "Standard pool",
\* and with "standard pool" alone
MergeCorpus ==
    <<BaseAmenities, <<<<80, 111, 111, 108>>>>,
      <<<<112, 111, 111, 108>>, <<83, 116, 97, 110, 100, 97, 114, 100, 32, 112, 111, 111, 108>>>>,
      <<<<115, 116, 97, 110, 100, 97, 114, 100, 32, 112, 111, 111, 108>>>>>>

BuildCorpora ==
    { base \o extra :
        base \in {<< >>, <<BaseAmenities>>},
        extra \in SeqsUpTo(ExtraAmenities, 0, MaxExtra) }
    \cup {<<SmallVocabulary>>, <<SmallVocabulary, <<<<119, 105, 45, 102, 105>>>>>>}
    \cup {MergeCorpus}

(* Startup as a state machine: the index-building steps of lifespan, in
   its order *)

\* the amenity columns of a frame whose listings carry the amenities c[i]
AmenFrame(c) ==
    [i \in DOMAIN c |->
        [amenities |-> c[i], amenities_norm |-> <<>>, amenities_canon |-> <<>>]]

\* the other columns of the loaded frame: amenities_canon is not there yet
LoadedCols == OptionalCols \ {"amenities_canon"}
LoadedFrame(ls) ==
    [cols |-> LoadedCols, rows |-> [i \in DOMAIN ls |-> Project(LoadedCols, ls[i])]]

\* "home 1", "home 2", ...: the names of listings without a description
PlainTexts(n) == [i \in 1..n |-> [name |-> <<"home", ToString(i)>>, description |-> <<>>]]

\* 2. the frame is loaded: listing i has the amenities c[i], the columns ls[i]
\* and the texts txt[i]; data/listing_embeddings.npy is as f
LoadedWith(c, ls, txt, f) ==
    /\ pc = "loaded"
    /\ df_amen = AmenFrame(c)
    /\ corpus = LoadedFrame(ls)
    /\ df_text = txt
    /\ NoTexts
    /\ emb_file = f
    /\ spec = EmptySpec
    /\ result = NoResult
    /\ spec0 = EmptySpec
    /\ result0 = NoResult
    /\ IdleRank
    /\ EmptyGlobals
    /\ IdleQuery
    /\ IdleServer

\* the same on a first start, with no file yet
Loaded(c, ls) == LoadedWith(c, ls, PlainTexts(Len(ls)), NoFile)

\* "Ce", "So", 2 guests, 1..30 nights, price 90, "Er", "Lo"
PlainListing ==
    Listing(<<67, 101>>, <<83, 111>>, 2, Some(1), Some(30), 90,
            <<69, 114>>, <<76, 111>>, <<>>, Some(TRUE))

InitBuild == \E c \in BuildCorpora : Loaded(c, [i \in DOMAIN c |-> PlainListing])

\* 3. df_listings = nlp_service.prepare_amenities_norm(df_listings)
PrepareAmenitiesNorm ==
    /\ pc = "loaded"
    /\ df_amen' = [i \in DOMAIN df_amen |->
                     [df_amen[i] EXCEPT
                        !.amenities_norm = parse_amenities_to_list(df_amen[i].amenities)]]
    /\ pc' = "normalized"
    /\ UNCHANGED <<filterVars, rankVars, amenVars, textVars, queryVars, serverVars>>

NormRows == [i \in DOMAIN df_amen |-> df_amen[i].amenities_norm]

\* 4. nlp_service.build_amenity_clusters(df_listings)
BuildAmenityClusters ==
    /\ pc = "normalized"
    /\ \E freq \in {TokFreq(NormRows)} :
       \E pos \in {SortedPos(DOMAIN freq)} :
       \E toks \in {SeqOfPos(pos)} :
       \E K \in {ClusterCount(Len(toks))} :
           \/ \* line 129: no amenity token, return
              /\ Len(toks) = 0
              /\ ALL_AMEN_TOKENS' = toks
              /\ pc' = "clustered"
              /\ UNCHANGED <<AMEN_CLUSTER_ID, tok_freq, AMEN_CANON, CANON_LIST,
                             CANON_MEMBERS, CANON_TOKENS, CANON_MERGE>>
           \/ \* KMeans.fit_predict raises ValueError: n_samples < n_clusters
              /\ Len(toks) > 0 /\ Len(toks) < K
              /\ ALL_AMEN_TOKENS' = toks
              /\ pc' = "startup_failed"
              /\ UNCHANGED <<AMEN_CLUSTER_ID, tok_freq, AMEN_CANON, CANON_LIST,
                             CANON_MEMBERS, CANON_TOKENS, CANON_MERGE>>
           \/ /\ Len(toks) >= K
              /\ \E amen_labels \in KMeansLabelings(Len(toks), K) :
                 \E ids \in {Table([t \in DOMAIN freq |-> amen_labels[pos[t]]])} :
                 \E cc \in {ClusterCanon(ids, freq, pos)} :
                 \E canon \in {AmenCanon(ids, cc)} :
                      /\ ALL_AMEN_TOKENS' = toks
                      /\ AMEN_CLUSTER_ID' = ids
                      /\ tok_freq' = freq
                      /\ AMEN_CANON' = canon
                      /\ CANON_LIST' = CanonList(cc)
                      /\ CANON_MEMBERS' = CanonMembers(CANON_MEMBERS, canon)
                      /\ CANON_TOKENS' = CanonTokens(CanonList(cc))
                      /\ CANON_MERGE' = CanonMerge(CanonList(cc), freq)
              /\ pc' = "clustered"
    /\ UNCHANGED <<filterVars, rankVars, df_amen, textVars, queryVars, serverVars>>

\* 5. nlp_service.build_label_pools(df_listings)
BuildLabelPools ==
    /\ pc = "clustered"
    /\ pools' = build_label_pools(corpus.rows)
    /\ pc' = "pooled"
    /\ UNCHANGED <<filterVars, rankVars, buildVars, query, calls, located, response,
                 serverVars>>

\* _concat_text(row) as the words of f"{name}. {desc}"
concat_text(row) == row.name \o row.description

\* embed_model.encode(texts): one row per text, in the order of the list
encode(texts) == [i \in DOMAIN texts |-> [of |-> texts[i]]]

\* np.save(emb_path, listing_embeddings)
Saved(rows) == [exists |-> TRUE, loads |-> TRUE, rows |-> rows]

\* the file is taken as it is whenever it is there and np.load reads it
\* (lines 143-155)
FromFile(f) == f.exists /\ f.loads

\* 6. listing_texts and listing_embeddings, from data/listing_embeddings.npy
\* or encoded and saved
LoadEmbeddings ==
    /\ pc = "pooled"
    /\ listing_texts' = [i \in DOMAIN df_text |-> concat_text(df_text[i])]
    /\ IF FromFile(emb_file)
       THEN /\ listing_embeddings' = emb_file.rows
            /\ emb_file' = emb_file
       ELSE /\ listing_embeddings' = encode(listing_texts')
            /\ emb_file' = Saved(listing_embeddings')
    /\ pc' = "embedded"
    /\ UNCHANGED <<filterVars, rankVars, df_amen, amenVars, df_text, X_tfidf, queryVars,
                 serverVars>>

\* the words TfidfVectorizer(min_df=2) keeps: those of two texts or more
Vocabulary(texts) ==
    {w \in UNION {Range(texts[i]) : i \in DOMAIN texts} :
        Cardinality({i \in DOMAIN texts : w \in Range(texts[i])}) >= 2}

\* 7. nlp_service.build_tfidf_index(df_listings, listing_texts): fit_transform
\* raises ValueError on a single text (max_df < min_df) and when no word is
\* left in the vocabulary
BuildTfidfIndex ==
    /\ pc = "embedded"
    /\ IF Len(listing_texts) < 2 \/ Vocabulary(listing_texts) = {}
       THEN /\ pc' = "index_failed"
            /\ X_tfidf' = X_tfidf
       ELSE /\ pc' = "indexed"
            /\ X_tfidf' = [i \in DOMAIN listing_texts |->
                             Range(listing_texts[i]) \cap Vocabulary(listing_texts)]
    /\ UNCHANGED <<filterVars, rankVars, df_amen, amenVars, df_text, listing_texts,
                 listing_embeddings, emb_file, queryVars, serverVars>>

\* the same step run right after the clusters are built
BuildAmenitiesCanon_Early ==
    /\ pc = "clustered"
    /\ df_amen' = [i \in DOMAIN df_amen |->
                     [df_amen[i] EXCEPT
                        !.amenities_canon = CanonColumn(AMEN_CANON, df_amen[i].amenities_norm)]]
    /\ corpus' = [cols |-> corpus.cols \cup {"amenities_canon"},
                  rows |-> [i \in DOMAIN corpus.rows |->
                              [corpus.rows[i] EXCEPT
                                 !.amenities_canon = df_amen'[i].amenities_canon]]]
    /\ pc' = "ready"
    /\ UNCHANGED <<spec, result, spec0, result0, rankVars, amenVars, textVars, queryVars,
                 serverVars>>

\* 8. df_listings['amenities_canon'] = df_listings['amenities_norm'].apply(...)
BuildAmenitiesCanon ==
    /\ pc = "indexed"
    /\ df_amen' = [i \in DOMAIN df_amen |->
                     [df_amen[i] EXCEPT
                        !.amenities_canon = CanonColumn(AMEN_CANON, df_amen[i].amenities_norm)]]
    /\ corpus' = [cols |-> corpus.cols \cup {"amenities_canon"},
                  rows |-> [i \in DOMAIN corpus.rows |->
                              [corpus.rows[i] EXCEPT
                                 !.amenities_canon = df_amen'[i].amenities_canon]]]
    /\ pc' = "ready"
    /\ UNCHANGED <<spec, result, spec0, result0, rankVars, amenVars, textVars, queryVars,
                 serverVars>>

NextBuild ==
    \/ PrepareAmenitiesNorm
    \/ BuildAmenityClusters
    \/ BuildLabelPools
    \/ LoadEmbeddings
    \/ BuildTfidfIndex
    \/ BuildAmenitiesCanon

SpecBuild == InitBuild /\ [][NextBuild]_vars

(* Startup over several runs of the server: data/listing_embeddings.npy stays
   on disk from one run to the next, while the listings database may change *)

MaxTexts == 2

\* "loft centro" / "", "villa" / "near centro"
TextRows ==
    { [name |-> <<"loft", "centro">>, description |-> <<>>],
      [name |-> <<"villa">>, description |-> <<"near", "centro">>] }

TextFrames == SeqsUpTo(TextRows, 1, MaxTexts)

\* a file np.load cannot read
Unreadable == [exists |-> TRUE, loads |-> FALSE, rows |-> <<>>]

\* a corpus of plain listings with these texts and no amenities
StartWith(txt, f) ==
    LoadedWith([i \in DOMAIN txt |-> <<>>], [i \in DOMAIN txt |-> PlainListing], txt, f)

InitEmbed == \E txt \in TextFrames : \E f \in {NoFile, Unreadable} : StartWith(txt, f)

\* the process ends, by itself at a failed startup or shut down while serving,
\* and is started again: lifespan loads the database as it then is
Restart ==
    /\ pc \in {"ready", "startup_failed", "index_failed"}
    /\ \E txt \in TextFrames :
          /\ df_text' = txt
          /\ df_amen' = AmenFrame([i \in DOMAIN txt |-> <<>>])
          /\ corpus' = LoadedFrame([i \in DOMAIN txt |-> PlainListing])
    /\ pc' = "loaded"
    /\ listing_texts' = <<>>
    /\ listing_embeddings' = <<>>
    /\ X_tfidf' = <<>>
    /\ ALL_AMEN_TOKENS' = <<>>
    /\ AMEN_CLUSTER_ID' = <<>>
    /\ tok_freq' = <<>>
    /\ AMEN_CANON' = <<>>
    /\ CANON_LIST' = <<>>
    /\ CANON_MEMBERS' = <<>>
    /\ CANON_TOKENS' = <<>>
    /\ CANON_MERGE' = <<>>
    /\ pools' = EmptyPools
    /\ UNCHANGED <<emb_file, spec, result, spec0, result0, rankVars, query, calls, located,
                 response, serverVars>>

NextEmbed ==
    \/ PrepareAmenitiesNorm
    \/ BuildAmenityClusters
    \/ BuildLabelPools
    \/ LoadEmbeddings
    \/ BuildTfidfIndex
    \/ BuildAmenitiesCanon
    \/ Restart

SpecEmbed == InitEmbed /\ [][NextEmbed]_vars

-----------------------------------------------------------------------------
(* Entity Extractor: best_two, canonical_amenities_from_query,
   neighborhoods_groups_from_query, type_from_query_by_centroid.

   A query is a record: its text, the phrases noun_phrases_and_ngrams (spaCy)
   returns for it, and the cosine similarities the embedding model gives,
   in hundredths (60 = 0.60): canon[i][j] of phrase i to catalog label j, and
   group, neigh, room, prop[i][j] of the i-th of phrases + [query] to label j
   of the pool. *)

Max2(x, y) == IF x > y THEN x ELSE y

\* max(a[1..n])
MaxUpTo(a, n) == CHOOSE m \in {a[k] : k \in 1..n} : \A k \in 1..n : a[k] <= m

\* np.argmax(a), from 1: the first position of the maximum m
ArgMaxFirst(a, m) == CHOOSE i \in DOMAIN a : a[i] = m /\ \A k \in 1..(i - 1) : a[k] # m

\* a without its element j
Without(a, j) == [k \in 1..(Len(a) - 1) |-> a[IF k < j THEN k ELSE k + 1]]

BestTwoAt(a, j) ==
    [j |-> j - 1, m1 |-> a[j],
     m2 |-> IF Len(a) = 1 THEN -100 ELSE MaxUpTo(Without(a, j), Len(a) - 1)]

\* best_two(a): Python index of the first maximum, the maximum, and the
\* largest of the others; -1 and -1.0 (-100 hundredths) where there is none
best_two(a) ==
    IF a = <<>> THEN [j |-> -1, m1 |-> -100, m2 |-> -100]
    ELSE BestTwoAt(a, ArgMaxFirst(a, MaxUpTo(a, Len(a))))

\* best_two of every row
BestTwos(sims) == Table([i \in DOMAIN sims |-> best_two(sims[i])])

\* the same with the margin test turned round
SemanticGate_Reversed(b, th_abs, th_margin) ==
    b.m1 >= th_abs /\ (b.m2 < 0 \/ b.m1 - b.m2 <= th_margin)

\* m1 >= th_abs and (m2 < 0 or m1 - m2 >= th_margin)
SemanticGate(b, th_abs, th_margin) ==
    b.m1 >= th_abs /\ (b.m2 < 0 \/ b.m1 - b.m2 >= th_margin)

\* one turn of the loop of canonical_amenities_from_query (lines 403-421):
\* phrase p, whose best_two is b, adds its label to hits
AmenityHit(p, b, q_tokens, canon_tokens, th_abs, th_margin) ==
    /\ b.j >= 0
    /\ \/ /\ SemanticGate(b, th_abs, th_margin)
          /\ content_tokens(p) \cap canon_tokens # {}
       \/ q_tokens \cap canon_tokens # {}

\* CANON_TOKENS.get(canon, set())
CanonTokensOf(canon) == IF canon \in DOMAIN CANON_TOKENS THEN CANON_TOKENS[canon] ELSE {}

HitsOf(q, bests, q_tokens, th_abs, th_margin) ==
    { CANON_LIST[bests[i].j + 1] :
        i \in { k \in DOMAIN q.phrases :
                  AmenityHit(q.phrases[k], bests[k], q_tokens,
                             CanonTokensOf(CANON_LIST[bests[k].j + 1]),
                             th_abs, th_margin) } }

AmenityHits(q, th_abs, th_margin) ==
    HitsOf(q, BestTwos(q.canon), content_tokens(q.text), th_abs, th_margin)

\* key of _prefer and of the final sort: a before b
CleanBefore(a, b) ==
    LET ka == <<IF ascii_ok(a) THEN 0 ELSE 1, Len(a)>>
        kb == <<IF ascii_ok(b) THEN 0 ELSE 1, Len(b)>>
    IN  \/ ka[1] < kb[1]
        \/ ka[1] = kb[1] /\ ka[2] < kb[2]
        \/ ka = kb /\ LexLess(norm_txt(a), norm_txt(b))

\* lines 430-448: one label per merge key, the cleanest of those sharing it
Cleaned(merged) ==
    { CHOOSE a \in {l \in merged : label_merge_key(l) = label_merge_key(h)} :
        \A b \in {l \in merged : label_merge_key(l) = label_merge_key(h)} \ {a} :
            CleanBefore(a, b) : h \in merged }

\* sorted(cleaned, key=...) for labels that differ after norm_txt
Ordered(cleaned) ==
    SeqOfPos(Table([a \in cleaned |-> Cardinality({b \in cleaned : CleanBefore(b, a)}) + 1]))

canonical_amenities_from_query(q, th_abs, th_margin) ==
    IF CANON_LIST = <<>> \/ q.phrases = <<>> THEN <<>>
    ELSE Ordered(Cleaned({ IF h \in DOMAIN CANON_MERGE THEN CANON_MERGE[h] ELSE h :
                             h \in AmenityHits(q, th_abs, th_margin) }))

\* phrases = noun_phrases_and_ngrams(query) + [query]
WithQuery(q) == Append(q.phrases, q.text)

\* re.findall(r"[a-z0-9]+", s), as a set
FindLowerAlnum(s) ==
    { SubSeq(s, i, j) :
        <<i, j>> \in { w \in (DOMAIN s) \X (DOMAIN s) :
                        /\ w[1] <= w[2]
                        /\ \A k \in w[1]..w[2] : s[k] \in 48..57 \/ s[k] \in 97..122
                        /\ (w[1] = 1 \/ ~(s[w[1] - 1] \in 48..57 \/ s[w[1] - 1] \in 97..122))
                        /\ (w[2] = Len(s)
                              \/ ~(s[w[2] + 1] \in 48..57 \/ s[w[2] + 1] \in 97..122)) } }

GroupsOf(q, bests, thr_group) ==
    { pools.group_norm[bests[i].j + 1] :
        i \in {k \in DOMAIN bests : bests[k].m1 >= thr_group} }
    \cup {g \in Range(pools.group_norm) : Contains(norm_txt(q.text), g)}

\* groups after the loop and the lexical fallback (lines 468-489)
MatchedGroups(q, thr_group) == GroupsOf(q, BestTwos(q.group), thr_group)

\* n1 >= thr_neigh and (n2 < 0 or n1 - n2 >= 0.06), and the phrase shares a
\* token with the neighbourhood
NeighHit(raw, b, thr_neigh) ==
    /\ SemanticGate(b, thr_neigh, 6)
    /\ content_tokens(raw) \cap FindLowerAlnum(pools.neigh_norm[b.j + 1]) # {}

NeighsOf(q, bests, thr_neigh) ==
    { pools.neigh_norm[bests[i].j + 1] :
        i \in {k \in DOMAIN bests : NeighHit(WithQuery(q)[k], bests[k], thr_neigh)} }
    \cup {n \in Range(pools.neigh_norm) : Contains(norm_txt(q.text), n)}

\* neighs after the loop and the lexical fallback
MatchedNeighs(q, thr_neigh) == NeighsOf(q, BestTwos(q.neigh), thr_neigh)

\* set().union(*[group_to_neigh.get(g, set()) for g in groups])
Allowed(groups) ==
    UNION { IF g \in DOMAIN pools.group_to_neigh THEN pools.group_to_neigh[g] ELSE {} :
              g \in groups }

FilterByGroups(neighs, groups) ==
    IF groups # {} THEN {n \in neighs : n \in Allowed(groups)} ELSE neighs

\* the two lists are returned as sets: list(set) has no defined order
neighborhoods_groups_from_query(q, thr_neigh, thr_group) ==
    [neighs |-> FilterByGroups(MatchedNeighs(q, thr_neigh), MatchedGroups(q, thr_group)),
     groups |-> MatchedGroups(q, thr_group)]

\* TOKENS_MAP.get(lbl, set())
GateTokens(TOKENS_MAP, lbl) == IF lbl \in DOMAIN TOKENS_MAP THEN TOKENS_MAP[lbl] ELSE {}

\* phrase raw, whose best_two is b, passes both gates
TypeHit(raw, b, qtok, gate_tokens, th_abs, th_margin) ==
    /\ b.j >= 0
    /\ SemanticGate(b, th_abs, th_margin)
    /\ (content_tokens(raw) \cap gate_tokens # {} \/ qtok \cap gate_tokens # {})

\* the phrases of type_from_query_by_centroid that pass both gates
TypePassing(q, bests, qtok, labels_norm, TOKENS_MAP, th_abs, th_margin) ==
    { i \in DOMAIN bests :
        bests[i].j >= 0 /\
        TypeHit(WithQuery(q)[i], bests[i], qtok,
                GateTokens(TOKENS_MAP, labels_norm[bests[i].j + 1]), th_abs, th_margin) }

\* the label of the first passing phrase of highest similarity above -1.0, or None
BestOf(passing, bests, labels_norm) ==
    IF {i \in passing : bests[i].m1 > -100} = {} THEN None
    ELSE Some(labels_norm[
            bests[CHOOSE i \in passing : \A k \in passing :
                     \/ bests[k].m1 < bests[i].m1
                     \/ (bests[k].m1 = bests[i].m1 /\ i <= k)].j + 1])

TypeFrom(q, bests, labels_norm, TOKENS_MAP, th_abs, th_margin) ==
    BestOf(TypePassing(q, bests, content_tokens(q.text), labels_norm, TOKENS_MAP,
                       th_abs, th_margin),
           bests, labels_norm)

type_from_query_by_centroid(q, sims, labels_norm, TOKENS_MAP, th_abs, th_margin) ==
    TypeFrom(q, BestTwos(sims), labels_norm, TOKENS_MAP, th_abs, th_margin)

\* A similarity row over n labels: m1 for label top, m2 for the others
SimRow(n, top, m1, m2) == [j \in 1..n |-> IF j = top THEN m1 ELSE m2]

\* The rows an embedding may give over a pool of n labels, for the pairs
\* <<m1, m2>> of Pairs
SimRows(n, Pairs) ==
    IF n = 0 THEN {<<>>}
    ELSE {SimRow(n, top, p[1], p[2]) : top \in 1..n, p \in Pairs}

\* every phrase far from every label
FarRows(np, n) == [i \in 1..np |-> [j \in 1..n |-> 10]]

-----------------------------------------------------------------------------
(* Regular expressions, as re.search applies them: a pattern is a tree, a
   match state is a position in the text with the groups captured so far,
   and the states a pattern can reach from a state are listed in the order
   in which backtracking tries them. *)

Lit(s) == [op |-> "lit", s |-> s]
Cls(S) == [op |-> "cls", S |-> S]
NotCls(S) == [op |-> "ncls", S |-> S]
Cat(rs) == [op |-> "cat", rs |-> rs]
Alt(rs) == [op |-> "alt", rs |-> rs]
\* c{lo,hi} for a character class c; hi = -1 for no upper bound
Rep(c, lo, hi) == [op |-> "rep", c |-> c, lo |-> lo, hi |-> hi]
\* c{lo,hi}?
Lazy(c, lo, hi) == [op |-> "lazy", c |-> c, lo |-> lo, hi |-> hi]
Grp(n, r) == [op |-> "grp", n |-> n, r |-> r]
\* r?
Maybe(r) == [op |-> "opt", r |-> r]

Capture(n, start, sts) ==
    [k \in DOMAIN sts |-> [sts[k] EXCEPT !.caps = (n :> <<start, sts[k].pos>>) @@ @]]

\* one character c matched against a character class
InClass(cls, c) == IF cls.op = "cls" THEN c \in cls.S ELSE c \notin cls.S

\* how many characters of t from position pos on are in the class, hi at most
Run(cls, t, pos, hi) ==
    CHOOSE k \in 0..(Len(t) - pos + 1) :
        /\ hi < 0 \/ k <= hi
        /\ \A i \in pos..(pos + k - 1) : InClass(cls, t[i])
        /\ k = hi \/ pos + k > Len(t) \/ ~InClass(cls, t[pos + k])

\* a repeated character class: every count from lo to the run, the longest
\* first when greedy and the shortest first when lazy
RepClass(lo, run, greedy, st) ==
    IF run < lo THEN <<>>
    ELSE [k \in 1..(run - lo + 1) |->
             [st EXCEPT !.pos = @ + (IF greedy THEN run - k + 1 ELSE lo + k - 1)]]

RECURSIVE Match(_, _, _), MatchCat(_, _, _, _), MatchAlt(_, _, _)

Match(re, t, st) ==
    CASE re.op = "lit" ->
            IF st.pos + Len(re.s) - 1 <= Len(t)
               /\ SubSeq(t, st.pos, st.pos + Len(re.s) - 1) = re.s
            THEN <<[st EXCEPT !.pos = @ + Len(re.s)]>> ELSE <<>>
      [] re.op \in {"cls", "ncls"} ->
            IF st.pos <= Len(t) /\ InClass(re, t[st.pos])
            THEN <<[st EXCEPT !.pos = @ + 1]>> ELSE <<>>
      [] re.op = "cat" -> MatchCat(re.rs, 1, t, <<st>>)
      [] re.op = "alt" -> MatchAlt(re.rs, t, st)
      [] re.op \in {"rep", "lazy"} ->
            RepClass(re.lo, Run(re.c, t, st.pos, re.hi), re.op = "rep", st)
      [] re.op = "opt" -> Match(re.r, t, st) \o <<st>>
      [] re.op = "grp" -> Capture(re.n, st.pos, Match(re.r, t, st))

\* the parts of a sequence one after another, from every state the parts
\* before can end in
MatchCat(rs, k, t, sts) ==
    IF k > Len(rs) \/ sts = <<>> THEN sts
    ELSE MatchCat(rs, k + 1, t, Concat(Table([i \in DOMAIN sts |-> Match(rs[k], t, sts[i])])))

\* the alternatives in their order
MatchAlt(rs, t, st) == Concat(Table([k \in DOMAIN rs |-> Match(rs[k], t, st)]))

MatchesAt(re, t) == {i \in 1..(Len(t) + 1) : Match(re, t, [pos |-> i, caps |-> <<>>]) # <<>>}

Leftmost(S) == CHOOSE i \in S : \A j \in S : i <= j

FirstAt(re, t, starts) ==
    IF starts = {} THEN None
    ELSE Some(Head(Match(re, t, [pos |-> Leftmost(starts), caps |-> <<>>])))

\* re.search(re, t): the first match at the leftmost position that has one, or None
Search(re, t) == FirstAt(re, t, MatchesAt(re, t))

\* m.group(n): None for a group that took no part in the match
Group(t, m, n) ==
    IF n \in DOMAIN m.caps THEN Some(SubSeq(t, m.caps[n][1], m.caps[n][2] - 1)) ELSE None

\* int(s), float(s) for a string of ASCII digits
RECURSIVE ToInt(_)
ToInt(s) == IF s = <<>> THEN 0 ELSE 10 * ToInt(SubSeq(s, 1, Len(s) - 1)) + (s[Len(s)] - 48)

Digit == Cls(48..57)
\* \s for the white space norm_txt leaves and the white space of a raw query
Ws == Cls({9, 10, 13, 32})
Words(ws) == Alt([i \in DOMAIN ws |-> Lit(ws[i])])

(* Numeric extractors: extract_price_range_en, extract_guests_nights_en,
   maybe_parse_dates_en.  An amount is a whole number of currency units. *)

\* CUR = (?:EURO SIGN|\$|eur|usd|euros?|dollars?)
CUR ==
    Alt(<<Lit(<<8364>>), Lit(<<36>>), Lit(<<101, 117, 114>>), Lit(<<117, 115, 100>>),
          Cat(<<Lit(<<101, 117, 114, 111>>), Maybe(Lit(<<115>>))>>),
          Cat(<<Lit(<<100, 111, 108, 108, 97, 114>>), Maybe(Lit(<<115>>))>>)>>)

\* \s*{CUR}?\s*(\d{2,6}) with the amount as group n
Amount(n) == Cat(<<Rep(Ws, 0, -1), Maybe(CUR), Rep(Ws, 0, -1), Grp(n, Rep(Digit, 2, 6))>>)

\* (?:between|from)\s*{CUR}?\s*(\d{2,6})\s*(?:and|to|-)\s*{CUR}?\s*(\d{2,6})
PriceBetween ==
    Cat(<<Words(<<<<98, 101, 116, 119, 101, 101, 110>>, <<102, 114, 111, 109>>>>), Amount(1), Rep(Ws, 0, -1),
          Words(<<<<97, 110, 100>>, <<116, 111>>, <<45>> >>), Amount(2)>>)

\* (?:up to|under|below|less than|max(?:imum)?|cheaper than)\s*{CUR}?\s*(\d{2,6})
PriceUpTo ==
    Cat(<<Alt(<<Lit(<<117, 112, 32, 116, 111>>), Lit(<<117, 110, 100, 101, 114>>), Lit(<<98, 101, 108, 111, 119>>), Lit(<<108, 101, 115, 115, 32, 116, 104, 97, 110>>),
                Cat(<<Lit(<<109, 97, 120>>), Maybe(Lit(<<105, 109, 117, 109>>))>>), Lit(<<99, 104, 101, 97, 112, 101, 114, 32, 116, 104, 97, 110>>)>>),
          Amount(1)>>)

\* (?:at least|min(?:imum)?|more than|above|over)\s*{CUR}?\s*(\d{2,6})
PriceAtLeast ==
    Cat(<<Alt(<<Lit(<<97, 116, 32, 108, 101, 97, 115, 116>>), Cat(<<Lit(<<109, 105, 110>>), Maybe(Lit(<<105, 109, 117, 109>>))>>),
                Lit(<<109, 111, 114, 101, 32, 116, 104, 97, 110>>), Lit(<<97, 98, 111, 118, 101>>), Lit(<<111, 118, 101, 114>>)>>),
          Amount(1)>>)

\* (?:{CUR}?\s*(\d{2,6})\s*(?:per\s*night|/night)|budget\s*{CUR}?\s*(\d{2,6}))
PricePerNight ==
    Alt(<<Cat(<<Maybe(CUR), Rep(Ws, 0, -1), Grp(1, Rep(Digit, 2, 6)), Rep(Ws, 0, -1),
                Alt(<<Cat(<<Lit(<<112, 101, 114>>), Rep(Ws, 0, -1), Lit(<<110, 105, 103, 104, 116>>)>>), Lit(<<47, 110, 105, 103, 104, 116>>)>>)>>),
          Cat(<<Lit(<<98, 117, 100, 103, 101, 116>>), Amount(2)>>)>>)

\* (?:{CUR}\s*(\d{2,6})|(\d{2,6})\s*{CUR})
PriceBare ==
    Alt(<<Cat(<<CUR, Rep(Ws, 0, -1), Grp(1, Rep(Digit, 2, 6))>>),
          Cat(<<Grp(2, Rep(Digit, 2, 6)), Rep(Ws, 0, -1), CUR>>)>>)

\* float(m.group(1) or m.group(2))
FirstGroup(t, m) == ToInt(Val(IF ~IsNone(Group(t, m, 1)) THEN Group(t, m, 1) ELSE Group(t, m, 2)))

Min2(x, y) == IF x < y THEN x ELSE y

\* the same with the lower bound tried before the upper bound
PriceFrom_AtLeastFirst(t, m1, m2, m3, m4, m5) ==
    IF ~IsNone(m1)
    THEN <<Some(Min2(ToInt(Val(Group(t, Val(m1), 1))), ToInt(Val(Group(t, Val(m1), 2))))),
           Some(Max2(ToInt(Val(Group(t, Val(m1), 1))), ToInt(Val(Group(t, Val(m1), 2)))))>>
    ELSE IF ~IsNone(m3) THEN <<Some(ToInt(Val(Group(t, Val(m3), 1)))), None>>
    ELSE IF ~IsNone(m2) THEN <<None, Some(ToInt(Val(Group(t, Val(m2), 1))))>>
    ELSE IF ~IsNone(m4) THEN <<None, Some(FirstGroup(t, Val(m4)))>>
    ELSE IF ~IsNone(m5) THEN <<None, Some(FirstGroup(t, Val(m5)))>>
    ELSE <<None, None>>

\* the result for the normalized text t, given the five searches
PriceFrom(t, m1, m2, m3, m4, m5) ==
    IF ~IsNone(m1)
    THEN <<Some(Min2(ToInt(Val(Group(t, Val(m1), 1))), ToInt(Val(Group(t, Val(m1), 2))))),
           Some(Max2(ToInt(Val(Group(t, Val(m1), 1))), ToInt(Val(Group(t, Val(m1), 2)))))>>
    ELSE IF ~IsNone(m2) THEN <<None, Some(ToInt(Val(Group(t, Val(m2), 1))))>>
    ELSE IF ~IsNone(m3) THEN <<Some(ToInt(Val(Group(t, Val(m3), 1)))), None>>
    ELSE IF ~IsNone(m4) THEN <<None, Some(FirstGroup(t, Val(m4)))>>
    ELSE IF ~IsNone(m5) THEN <<None, Some(FirstGroup(t, Val(m5)))>>
    ELSE <<None, None>>

PriceOfNorm(t) ==
    PriceFrom(t, Search(PriceBetween, t), Search(PriceUpTo, t), Search(PriceAtLeast, t),
              Search(PricePerNight, t), Search(PriceBare, t))

\* extract_price_range_en(text): <<price_min, price_max>>
extract_price_range_en(text) == PriceOfNorm(norm_txt(text))

\* (\d{1,3})\s*(?:guests?|people|adults|persons?)
GuestsRe ==
    Cat(<<Grp(1, Rep(Digit, 1, 3)), Rep(Ws, 0, -1),
          Alt(<<Cat(<<Lit(<<103, 117, 101, 115, 116>>), Maybe(Lit(<<115>>))>>), Lit(<<112, 101, 111, 112, 108, 101>>), Lit(<<97, 100, 117, 108, 116, 115>>),
                Cat(<<Lit(<<112, 101, 114, 115, 111, 110>>), Maybe(Lit(<<115>>))>>)>>)>>)

\* (\d{1,3})\s*(?:nights?)
NightsRe ==
    Cat(<<Grp(1, Rep(Digit, 1, 3)), Rep(Ws, 0, -1), Lit(<<110, 105, 103, 104, 116>>), Maybe(Lit(<<115>>))>>)

IntOfGroup(t, m) == IF IsNone(m) THEN None ELSE Some(ToInt(Val(Group(t, Val(m), 1))))

GuestsNightsOfNorm(t) ==
    <<IntOfGroup(t, Search(GuestsRe, t)), IntOfGroup(t, Search(NightsRe, t))>>

\* extract_guests_nights_en(text): <<guests, nights>>
extract_guests_nights_en(text) == GuestsNightsOfNorm(norm_txt(text))

\* from\s+([^\n,;]+?)\s+to\s+([^\n,;]+), re.IGNORECASE
DatesRe ==
    Cat(<<Lit(<<102, 114, 111, 109>>), Rep(Ws, 1, -1), Grp(1, Lazy(NotCls({10, 44, 59}), 1, -1)),
          Rep(Ws, 1, -1), Lit(<<116, 111>>), Rep(Ws, 1, -1), Grp(2, Rep(NotCls({10, 44, 59}), 1, -1))>>)

\* ASCII case folding, for re.IGNORECASE over an ASCII pattern
Fold(c) == IF c \in 65..90 THEN c + 32 ELSE c

\* the instant of a normalized Timestamp, in hours: midnight of its day in
\* its zone, utc hours behind UTC
Instant(d) == d.day * 24 + d.utc

\* What follows the two dateparser.parse calls (lines 353-359).  d1 and d2
\* are what dateparser returns for the two groups: None, or a day number
\* with the flag of a timezone-aware datetime and the offset of its zone.
\* Comparing an aware with a naive Timestamp raises TypeError; two aware
\* ones are compared and subtracted as instants, and .days is the whole
\* days of the difference.
DatesFrom(m, d1, d2) ==
    IF IsNone(m) \/ IsNone(d1) \/ IsNone(d2)
    THEN [raised |-> FALSE, checkin |-> None, checkout |-> None, nights |-> None]
    ELSE IF Val(d1).aware # Val(d2).aware
    THEN [raised |-> TRUE, checkin |-> None, checkout |-> None, nights |-> None]
    ELSE IF Instant(Val(d2)) <= Instant(Val(d1))
    THEN [raised |-> FALSE, checkin |-> d1,
          checkout |-> Some([Val(d1) EXCEPT !.day = @ + 1]), nights |-> Some(1)]
    ELSE [raised |-> FALSE, checkin |-> d1, checkout |-> d2,
          nights |-> Some((Instant(Val(d2)) - Instant(Val(d1))) \div 24)]

\* maybe_parse_dates_en(text) for the query q
maybe_parse_dates_en(q) == DatesFrom(Search(DatesRe, SeqMap(Fold, q.text)), q.d1, q.d2)

(* Location extraction as a state machine: startup over a frame whose
   listings differ in their geography, then one query *)

MaxGeo == 2

GeoListing(g, n) ==
    Listing(g, n, 2, Some(1), Some(30), 90, <<69, 114>>, <<76, 111>>, <<>>, Some(TRUE))

\* ("Centro", "Centro"), ("Centro", "Sol"), ("Norte", "R<i-acute>o"), (NaN, "Lago"),
\* ("CENTRO", "Sol ")
GeoSeq ==
    << GeoListing(<<67, 101, 110, 116, 114, 111>>, <<67, 101, 110, 116, 114, 111>>),
       GeoListing(<<67, 101, 110, 116, 114, 111>>, <<83, 111, 108>>),
       GeoListing(<<78, 111, 114, 116, 101>>, <<82, 237, 111>>),
       GeoListing(NaN, <<76, 97, 103, 111>>),
       GeoListing(<<67, 69, 78, 84, 82, 79>>, <<83, 111, 108, 32>>) >>

\* the frames made of at most MaxGeo of these listings, in this order
GeoFrames ==
    { [k \in DOMAIN idx |-> GeoSeq[idx[k]]] :
        idx \in { Ascending(S) : S \in {T \in SUBSET (DOMAIN GeoSeq) : Cardinality(T) <= MaxGeo} } }

InitLocate ==
    \E ls \in GeoFrames : Loaded([i \in DOMAIN ls |-> <<>>], ls)

\* "sol centro" with phrase "sol"; "R<i-acute>o centro" with phrase "R<i-acute>o";
\* "lago flat" with phrase "lago flat"
LocTexts ==
    { [text |-> <<115, 111, 108, 32, 99, 101, 110, 116, 114, 111>>, phrases |-> <<<<115, 111, 108>>>>],
      [text |-> <<82, 237, 111, 32, 99, 101, 110, 116, 114, 111>>, phrases |-> <<<<82, 237, 111>>>>],
      [text |-> <<108, 97, 103, 111, 32, 102, 108, 97, 116>>, phrases |-> <<<<108, 97, 103, 111, 32, 102, 108, 97, 116>>>>] }

\* the queries over the built pools: every phrase and the query itself may be
\* far from or close to any group, and close to any neighbourhood with or
\* without a margin over the next
LocQueries ==
    { [text |-> t.text, phrases |-> t.phrases, group |-> sg, neigh |-> sn] :
        t \in LocTexts,
        sg \in [1..2 -> SimRows(Len(pools.group_norm), {<<70, 40>>, <<50, 40>>})],
        sn \in [1..2 -> SimRows(Len(pools.neigh_norm), {<<74, 50>>, <<74, 70>>})] }

\* neighbourhoods, neigh_groups = neighborhoods_groups_from_query(query)
Locate ==
    /\ pc = "ready"
    /\ \E q \in LocQueries :
        /\ query' = q
        /\ located' = neighborhoods_groups_from_query(q, 68, 60)
    /\ pc' = "located"
    /\ UNCHANGED <<filterVars, rankVars, buildVars, pools, calls, response, serverVars>>

NextLocate ==
    \/ PrepareAmenitiesNorm
    \/ BuildAmenityClusters
    \/ BuildLabelPools
    \/ LoadEmbeddings
    \/ BuildTfidfIndex
    \/ BuildAmenitiesCanon
    \/ Locate

SpecLocate == InitLocate /\ [][NextLocate]_vars

(* Amenity and type extraction as a state machine: startup, then one query
   on which the extractors are called with several margins *)

MaxCalls == 2

\* th_margin, in hundredths
Margins == {5, 10}

\* "Wifi", "Pool", "Standard pool" and "wifi", "pool", "standard pool"
QueryAmenities ==
    << BaseAmenities,
       <<<<87, 105, 102, 105>>, <<80, 111, 111, 108>>, <<83, 116, 97, 110, 100, 97, 114, 100, 32, 112, 111, 111, 108>>>>,
       <<<<119, 105, 102, 105>>, <<112, 111, 111, 108>>, <<115, 116, 97, 110, 100, 97, 114, 100, 32, 112, 111, 111, 108>>>> >>

\* a listing with the two columns only the ranker reads: the rating in tenths
\* of a point, the per-guest price in hundredths, <<>> for NaN
Rated(l, rating, ppg) ==
    [neighbourhood_group_cleansed |-> l.neighbourhood_group_cleansed,
     neighbourhood_cleansed |-> l.neighbourhood_cleansed,
     accommodates |-> l.accommodates, minimum_nights |-> l.minimum_nights,
     maximum_nights |-> l.maximum_nights, price |-> l.price,
     room_type |-> l.room_type, property_type |-> l.property_type,
     amenities_canon |-> l.amenities_canon, has_availability |-> l.has_availability,
     review_scores_rating |-> rating, price_per_guest |-> ppg]

\* room types "Entire home/apt", "Private room"; property types "Loft", "Villa"
QueryListings ==
    << Rated(Listing(<<67, 101, 110, 116, 114, 111>>, <<83, 111, 108>>, 2, Some(1), Some(30), 90, <<69, 110, 116, 105, 114, 101, 32, 104, 111, 109, 101, 47, 97, 112, 116>>, <<76, 111, 102, 116>>, <<>>, Some(TRUE)),
             Some(48), Some(4500)),
       Rated(Listing(<<67, 101, 110, 116, 114, 111>>, <<67, 101, 110, 116, 114, 111>>, 4, Some(3), Some(10), 150, <<80, 114, 105, 118, 97, 116, 101, 32, 114, 111, 111, 109>>, <<86, 105, 108, 108, 97>>, <<>>,
                     Some(TRUE)),
             None, Some(3750)),
       Rated(Listing(NaN, <<76, 97, 103, 111>>, 1, Some(1), Some(2), 60, <<69, 110, 116, 105, 114, 101, 32, 104, 111, 109, 101, 47, 97, 112, 116>>, <<76, 111, 102, 116>>, <<>>, Some(TRUE)),
             Some(48), Some(6000)) >>

\* the same listings with and without amenities
InitExtract ==
    \E c \in {QueryAmenities, [i \in DOMAIN QueryListings |-> <<>>]} :
        Loaded(c, QueryListings)

\* "home with private pool and wifi", noun phrases "private pool", "wifi"
ExtractText == [text |-> <<104, 111, 109, 101, 32, 119, 105, 116, 104, 32, 112, 114, 105, 118, 97, 116, 101, 32, 112, 111, 111, 108, 32, 97, 110, 100, 32, 119, 105, 102, 105>>, phrases |-> <<<<112, 114, 105, 118, 97, 116, 101, 32, 112, 111, 111, 108>>, <<119, 105, 102, 105>>>>]

\* the catalog positions of the labels "pool", "standard pool", "wifi"
NamedLabels ==
    {j \in DOMAIN CANON_LIST : CANON_LIST[j] \in {<<112, 111, 111, 108>>, <<115, 116, 97, 110, 100, 97, 114, 100, 32, 112, 111, 111, 108>>, <<119, 105, 102, 105>>}}

\* a phrase is close to one of these labels, with or without a margin over the others
CanonRows ==
    IF CANON_LIST = <<>> THEN {<<>>}
    ELSE {SimRow(Len(CANON_LIST), top, p[1], p[2]) :
            top \in NamedLabels, p \in {<<70, 50>>, <<70, 62>>}}

\* the queries whose phrases are close to amenities and far from every type,
\* and those whose phrases are close to room types and far from every amenity;
\* the query as a whole is far from every type
ExtractQueries ==
    { [text |-> ExtractText.text, phrases |-> ExtractText.phrases,
       canon |-> sc, room |-> FarRows(3, Len(pools.room_norm))] :
        sc \in [1..2 -> CanonRows] }
    \cup
    { [text |-> ExtractText.text, phrases |-> ExtractText.phrases,
       canon |-> FarRows(2, Len(CANON_LIST)),
       room |-> sr \o FarRows(1, Len(pools.room_norm))] :
        sr \in [1..2 -> SimRows(Len(pools.room_norm), {<<90, 82>>, <<80, 50>>})] }

ReceiveQuery ==
    /\ pc = "ready"
    /\ query' \in ExtractQueries
    /\ pc' = "parsing"
    /\ UNCHANGED <<filterVars, rankVars, buildVars, pools, calls, located, response,
                 serverVars>>

\* canonical_amenities_from_query(query, th_margin=m)
CallCanonicalAmenities ==
    /\ pc = "parsing"
    /\ Cardinality(calls) < MaxCalls
    /\ \E m \in Margins :
        calls' = calls \cup
            {[fn |-> "canonical_amenities_from_query", th_margin |-> m,
              out |-> Range(canonical_amenities_from_query(query, 60, m))]}
    /\ UNCHANGED <<pc, filterVars, rankVars, buildVars, pools, query, located, response,
                 serverVars>>

\* type_from_query_by_centroid(query, room_norm, E_ROOM, ROOM_CONTENT_TOKENS,
\*                             th_abs=0.58, th_margin=m)
CallTypeByCentroid ==
    /\ pc = "parsing"
    /\ Cardinality(calls) < MaxCalls
    /\ \E m \in Margins :
        calls' = calls \cup
            {[fn |-> "type_from_query_by_centroid", th_margin |-> m,
              out |-> Range(type_from_query_by_centroid(
                                query, query.room, pools.room_norm,
                                pools.ROOM_CONTENT_TOKENS, 58, m))]}
    /\ UNCHANGED <<pc, filterVars, rankVars, buildVars, pools, query, located, response,
                 serverVars>>

NextExtract ==
    \/ PrepareAmenitiesNorm
    \/ BuildAmenityClusters
    \/ BuildLabelPools
    \/ LoadEmbeddings
    \/ BuildTfidfIndex
    \/ BuildAmenitiesCanon
    \/ ReceiveQuery
    \/ CallCanonicalAmenities
    \/ CallTypeByCentroid

SpecExtract == InitExtract /\ [][NextExtract]_vars

-----------------------------------------------------------------------------
(* Query parser and search endpoint: parse_user_query_ml (nlp_service.py)
   and search (main.py).  A query also carries what dateparser returns for
   the two halves of a date range (d1, d2), whether the embedding model
   raises on it (encode_raises), and its similarities to the listings:
   sem_cos and lex_raw, in thousandths, one per listing. *)

NoDates == [raised |-> FALSE, checkin |-> None, checkout |-> None, nights |-> None]

\* the dict parse_user_query_ml returns, without raw_query and the display
\* fields location, amenities, price_range that are derived from the others;
\* the two location lists are in sorted order for want of a defined one
ParsedOf(q, loc, gn, price, dates) ==
    [amenities_all |-> canonical_amenities_from_query(q, 60, 6),
     neighbourhoods |-> Sorted(loc.neighs),
     neigh_groups |-> Sorted(loc.groups),
     room_type |-> type_from_query_by_centroid(q, q.room, pools.room_norm,
                                               pools.ROOM_CONTENT_TOKENS, 58, 5),
     property_type |-> type_from_query_by_centroid(q, q.prop, pools.prop_norm,
                                                   pools.PROP_CONTENT_TOKENS, 58, 5),
     guests |-> gn[1],
     nights |-> IF IsNone(gn[2]) /\ ~IsNone(dates.nights) THEN dates.nights ELSE gn[2],
     price_min |-> price[1],
     price_max |-> price[2],
     checkin |-> dates.checkin,
     checkout |-> dates.checkout]

ParseWith(q, dates) ==
    IF dates.raised THEN [raised |-> TRUE, spec |-> EmptySpec]
    ELSE [raised |-> FALSE,
          spec |-> ParsedOf(q, neighborhoods_groups_from_query(q, 68, 60),
                            extract_guests_nights_en(q.text),
                            extract_price_range_en(q.text), dates)]

\* parse_user_query_ml(query): no call of a sub-extractor is inside a try,
\* so what a sub-extractor raises, the parse raises.
\* neighborhoods_groups_from_query always calls embed_model.encode.
parse_user_query_ml(q) ==
    IF q.encode_raises THEN [raised |-> TRUE, spec |-> EmptySpec]
    ELSE ParseWith(q, maybe_parse_dates_en(q))

\* raise HTTPException(status_code=500, ...): the last handler of search
Failed == [status |-> 500, body |-> <<>>]

Unranked == [score |-> <<>>, ranked |-> <<>>]

\* the ranker's rows for the query: the listing columns and the similarities
IndexFor(rows, q) ==
    [i \in DOMAIN rows |->
        RankRow(rows[i].review_scores_rating, rows[i].price, Some(rows[i].accommodates),
                rows[i].price_per_guest, q.sem_cos[i], q.lex_raw[i])]

\* descending by rating, NaN last, the earlier row first among equals
RECURSIVE InsertByRating(_, _, _)
InsertByRating(rows, s, x) ==
    IF s = <<>> THEN <<x>>
    ELSE IF DescBefore(rows[x].review_scores_rating, rows[Head(s)].review_scores_rating)
    THEN <<x>> \o s
    ELSE <<Head(s)>> \o InsertByRating(rows, Tail(s), x)

RECURSIVE SortByRating(_, _, _)
SortByRating(rows, cnd, n) ==
    IF n = 0 THEN <<>> ELSE InsertByRating(rows, SortByRating(rows, cnd, n - 1), cnd[n])

TopN == 50

\* .head(50)
HeadN(s) == SubSeq(s, 1, Min2(Len(s), TopN))

\* filtered.nlargest(50, 'review_scores_rating', keep='first')
NLargestByRating(rows, cnd) == HeadN(SortByRating(rows, cnd, Len(cnd)))

Answer(q, sp, res, idx, rk, listings) ==
    [query |-> q, spec |-> sp, result |-> res, index |-> idx, cand |-> res.rows,
     score |-> rk.score, ranked |-> rk.ranked,
     response |-> [status |-> 200, body |-> [parsed_filters |-> sp, listings |-> listings]]]

Refusal(q, sp, res) ==
    [query |-> q, spec |-> sp, result |-> res, index |-> <<>>, cand |-> <<>>,
     score |-> <<>>, ranked |-> <<>>, response |-> Failed]

Ranked(q, sp, res, idx, rk) == Answer(q, sp, res, idx, rk, HeadN(rk.ranked))

\* search_with_timeout after the parse (lines 383-419)
AfterFilter(q, sp, res, mem_high) ==
    IF res.status # "ok" THEN Refusal(q, sp, res)
    ELSE IF res.rows = <<>> THEN Answer(q, sp, res, <<>>, Unranked, <<>>)
    ELSE IF mem_high
    THEN Answer(q, sp, res, <<>>, Unranked, NLargestByRating(corpus.rows, res.rows))
    ELSE Ranked(q, sp, res, IndexFor(corpus.rows, q),
                rerank_semantic_with_lex(IndexFor(corpus.rows, q), res.rows))

\* lines 374-380: when cached_parse_query raises, the handler parses again
Reparsed(q, first, second) == IF first.raised THEN second ELSE first

AfterParse(q, parsed, mem_high) ==
    IF parsed.raised THEN Refusal(q, EmptySpec, NoResult)
    ELSE AfterFilter(q, parsed.spec, apply_filters_ml(corpus, parsed.spec), mem_high)

CacheSize == 50

\* the tuple cached_parse_query returns, the spec dict its last element
CachedTuple(sp) ==
    <<sp.amenities_all, sp.neighbourhoods, sp.neigh_groups, sp.room_type, sp.property_type,
      sp.guests, sp.price_min, sp.price_max, sp>>

Keys(c) == [i \in DOMAIN c |-> c[i].key]

Cached(c, key) == \E i \in DOMAIN c : c[i].key = key

KeyAt(c, key) == CHOOSE i \in DOMAIN c : c[i].key = key

\* a hit that leaves the order of the entries alone
Touch_Keep(c, i) == c

\* a hit makes the entry the most recently used one
Touch(c, i) == SubSeq(c, 1, i - 1) \o SubSeq(c, i + 1, Len(c)) \o <<c[i]>>

\* a miss stores the entry; in a full cache the least recently used one goes
Insert(c, e) == (IF Len(c) >= CacheSize THEN Tail(c) ELSE c) \o <<e>>

\* what a call that raises leaves of the cache: nothing is stored
Stored(c, key, parsed) ==
    IF parsed.raised THEN [raised |-> TRUE, spec |-> EmptySpec, cache |-> c]
    ELSE [raised |-> FALSE, spec |-> parsed.spec,
          cache |-> Insert(c, [key |-> key, value |-> CachedTuple(parsed.spec)])]

\* cached_parse_query(query) under lru_cache(maxsize=50), query stripped by
\* the caller: the spec is cached_result[8], and the cache after the call
cached_parse_query(c, q) ==
    IF Cached(c, Strip(q.text))
    THEN [raised |-> FALSE, spec |-> c[KeyAt(c, Strip(q.text))].value[9],
          cache |-> Touch(c, KeyAt(c, Strip(q.text)))]
    ELSE Stored(c, Strip(q.text), parse_user_query_ml(q))

Searched(q, first, mem_high) ==
    AfterParse(q, Reparsed(q, first, parse_user_query_ml(q)), mem_high)
        @@ [cache |-> first.cache]

\* search(request): the HTTPException of the empty query is raised inside the
\* try and leaves through its last handler
search(q, mem_high) ==
    IF Strip(q.text) = <<>> THEN Refusal(q, EmptySpec, NoResult) @@ [cache |-> cache]
    ELSE Searched(q, cached_parse_query(cache, q), mem_high)

(* The search endpoint as a state machine: startup, then one request *)

\* the similarity row of a phrase close to the catalog label lbl
RowNear(lbl) == [j \in DOMAIN CANON_LIST |-> IF CANON_LIST[j] = lbl THEN 70 ELSE 50]

Zoned(day, utc) == Some([day |-> day, aware |-> TRUE, utc |-> utc])
Aware(day) == Zoned(day, 0)
Naive(day) == Some([day |-> day, aware |-> FALSE, utc |-> 0])

\* the part of a query that does not depend on the indices:
\* "home with private pool and wifi"; "2 guests under 100 from may 1 utc to
\* may 5", whose first date dateparser may return aware or naive or not at
\* all; "sol centro 3 nights"; the blank query; "from May 1 UTC to May 1 EST";
\* "under 300 between 200 and 100 from may 5 to may 1"
SearchTexts ==
    { [text |-> <<104, 111, 109, 101, 32, 119, 105, 116, 104, 32, 112, 114, 105, 118, 97, 116, 101, 32, 112, 111, 111, 108, 32, 97, 110, 100, 32, 119, 105, 102, 105>>, phrases |-> <<<<112, 114, 105, 118, 97, 116, 101, 32, 112, 111, 111, 108>>, <<119, 105, 102, 105>>>>, near |-> <<<<112, 111, 111, 108>>, <<119, 105, 102, 105>>>>,
       d1 |-> None, d2 |-> None],
      [text |-> <<50, 32, 103, 117, 101, 115, 116, 115, 32, 117, 110, 100, 101, 114, 32, 49, 48, 48, 32, 102, 114, 111, 109, 32, 109, 97, 121, 32, 49, 32, 117, 116, 99, 32, 116, 111, 32, 109, 97, 121, 32, 53>>, phrases |-> <<<<103, 117, 101, 115, 116, 115>>>>, near |-> <<<<119, 105, 102, 105>>>>,
       d1 |-> Aware(1), d2 |-> Naive(5)],
      [text |-> <<50, 32, 103, 117, 101, 115, 116, 115, 32, 117, 110, 100, 101, 114, 32, 49, 48, 48, 32, 102, 114, 111, 109, 32, 109, 97, 121, 32, 49, 32, 117, 116, 99, 32, 116, 111, 32, 109, 97, 121, 32, 53>>, phrases |-> <<<<103, 117, 101, 115, 116, 115>>>>, near |-> <<<<119, 105, 102, 105>>>>,
       d1 |-> Naive(1), d2 |-> Naive(5)],
      [text |-> <<50, 32, 103, 117, 101, 115, 116, 115, 32, 117, 110, 100, 101, 114, 32, 49, 48, 48, 32, 102, 114, 111, 109, 32, 109, 97, 121, 32, 49, 32, 117, 116, 99, 32, 116, 111, 32, 109, 97, 121, 32, 53>>, phrases |-> <<<<103, 117, 101, 115, 116, 115>>>>, near |-> <<<<119, 105, 102, 105>>>>,
       d1 |-> None, d2 |-> Naive(5)],
      [text |-> <<115, 111, 108, 32, 99, 101, 110, 116, 114, 111, 32, 51, 32, 110, 105, 103, 104, 116, 115>>, phrases |-> <<<<115, 111, 108>>>>, near |-> <<<<112, 111, 111, 108>>>>,
       d1 |-> None, d2 |-> None],
      [text |-> <<32, 32>>, phrases |-> <<>>, near |-> <<>>,
       d1 |-> None, d2 |-> None],
      [text |-> <<102, 114, 111, 109, 32, 77, 97, 121, 32, 49, 32, 85, 84, 67, 32, 116, 111, 32, 77, 97, 121, 32, 49, 32, 69, 83, 84>>, phrases |-> <<>>, near |-> <<>>,
       d1 |-> Zoned(1, 0), d2 |-> Zoned(1, 5)],
      [text |-> <<117, 110, 100, 101, 114, 32, 51, 48, 48, 32, 98, 101, 116, 119, 101, 101, 110, 32, 50, 48, 48, 32, 97, 110, 100, 32, 49, 48, 48, 32, 102, 114, 111, 109, 32, 109, 97, 121, 32, 53, 32, 116, 111, 32, 109, 97, 121, 32, 49>>, phrases |-> <<>>, near |-> <<>>,
       d1 |-> Naive(5), d2 |-> Naive(1)] }

\* the searches that can follow startup: the embedding model raises or gives
\* the query a row of similarities per phrase and pool
QueriesOf(texts) ==
    { [text |-> t.text, phrases |-> t.phrases, d1 |-> t.d1, d2 |-> t.d2,
       encode_raises |-> er,
       canon |-> IF CANON_LIST = <<>> THEN [i \in DOMAIN t.phrases |-> <<>>]
                 ELSE [i \in DOMAIN t.phrases |-> RowNear(t.near[i])],
       group |-> [i \in 1..(Len(t.phrases) + 1) |-> sg],
       neigh |-> [i \in 1..(Len(t.phrases) + 1) |-> sn],
       room |-> [i \in 1..(Len(t.phrases) + 1) |-> sr],
       prop |-> FarRows(Len(t.phrases) + 1, Len(pools.prop_norm)),
       sem_cos |-> <<600, 200, 600>>,
       lex_raw |-> <<500, 0, 500>>] :
        t \in texts, er \in BOOLEAN,
        sg \in SimRows(Len(pools.group_norm), {<<70, 40>>, <<50, 40>>}),
        sn \in SimRows(Len(pools.neigh_norm), {<<74, 50>>}),
        sr \in SimRows(Len(pools.room_norm), {<<80, 50>>, <<50, 40>>}) }

SearchQueries == QueriesOf(SearchTexts)

InitSearch ==
    \E c \in {QueryAmenities, [i \in DOMAIN QueryListings |-> <<>>]} :
        Loaded(c, QueryListings)

\* what one request writes: its locals and the parse cache
Answered(q, mem_high) ==
    \E out \in {search(q, mem_high)} :
        /\ query' = out.query
        /\ spec' = out.spec
        /\ result' = out.result
        /\ index' = out.index
        /\ cand' = out.cand
        /\ score' = out.score
        /\ ranked' = out.ranked
        /\ response' = out.response
        /\ cache' = out.cache

\* the same request with the filter dropping the rows in place
OnCopies_InPlace ==
    /\ corpus' = IF result'.status = "ok"
                 THEN [corpus EXCEPT !.rows = [i \in DOMAIN result'.rows |->
                                                    corpus.rows[result'.rows[i]]]]
                 ELSE corpus
    /\ UNCHANGED <<buildVars, pools>>

\* the extractors only read the module globals, the filter returns
\* df.loc[m].copy() and the ranker sorts candidates.copy()
OnCopies == UNCHANGED <<corpus, buildVars, pools>>

\* POST /search, the first request after startup
SearchRequest ==
    /\ pc = "ready"
    /\ \E q \in SearchQueries : \E mem_high \in BOOLEAN : Answered(q, mem_high)
    /\ pc' = "answered"
    /\ OnCopies
    /\ UNCHANGED <<spec0, result0, calls, located, loop, reqs>>

NextSearch ==
    \/ PrepareAmenitiesNorm
    \/ BuildAmenityClusters
    \/ BuildLabelPools
    \/ LoadEmbeddings
    \/ BuildTfidfIndex
    \/ BuildAmenitiesCanon
    \/ SearchRequest

SpecSearch == InitSearch /\ [][NextSearch]_vars

(* The search endpoint on queries that give the stay as a number of nights,
   as a date range, or as both *)

\* "3 nights from may 1 to may 5", with both dates parsed and with the first
\* one not; "from may 2 to may 4"; "2 nights"
StayTexts ==
    { [text |-> <<51, 32, 110, 105, 103, 104, 116, 115, 32, 102, 114, 111, 109, 32, 109, 97, 121, 32, 49, 32, 116, 111, 32, 109, 97, 121, 32, 53>>, phrases |-> <<>>, near |-> <<>>,
       d1 |-> Naive(1), d2 |-> Naive(5)],
      [text |-> <<51, 32, 110, 105, 103, 104, 116, 115, 32, 102, 114, 111, 109, 32, 109, 97, 121, 32, 49, 32, 116, 111, 32, 109, 97, 121, 32, 53>>, phrases |-> <<>>, near |-> <<>>,
       d1 |-> None, d2 |-> Naive(5)],
      [text |-> <<102, 114, 111, 109, 32, 109, 97, 121, 32, 50, 32, 116, 111, 32, 109, 97, 121, 32, 52>>, phrases |-> <<>>, near |-> <<>>,
       d1 |-> Naive(2), d2 |-> Naive(4)],
      [text |-> <<50, 32, 110, 105, 103, 104, 116, 115>>, phrases |-> <<>>, near |-> <<>>,
       d1 |-> None, d2 |-> None] }

\* POST /search with such a query, the first request after startup
StayRequest ==
    /\ pc = "ready"
    /\ \E q \in QueriesOf(StayTexts) : \E mem_high \in BOOLEAN : Answered(q, mem_high)
    /\ pc' = "answered"
    /\ OnCopies
    /\ UNCHANGED <<spec0, result0, calls, located, loop, reqs>>

NextStay ==
    \/ PrepareAmenitiesNorm
    \/ BuildAmenityClusters
    \/ BuildLabelPools
    \/ LoadEmbeddings
    \/ BuildTfidfIndex
    \/ BuildAmenitiesCanon
    \/ StayRequest

SpecStay == InitSearch /\ [][NextStay]_vars

(* The search endpoint on queries that name prices *)

\* "over 50 under 100"; "80 per night at least 50"; "70 eur budget 90";
\* "90 dollars"; "under 300 between 200 and 100 from may 5 to may 1"; "2 nights"
PriceTexts ==
    { [text |-> <<111, 118, 101, 114, 32, 53, 48, 32, 117, 110, 100, 101, 114, 32, 49, 48, 48>>, phrases |-> <<>>, near |-> <<>>,
       d1 |-> None, d2 |-> None],
      [text |-> <<56, 48, 32, 112, 101, 114, 32, 110, 105, 103, 104, 116, 32, 97, 116, 32, 108, 101, 97, 115, 116, 32, 53, 48>>, phrases |-> <<>>, near |-> <<>>,
       d1 |-> None, d2 |-> None],
      [text |-> <<55, 48, 32, 101, 117, 114, 32, 98, 117, 100, 103, 101, 116, 32, 57, 48>>, phrases |-> <<>>, near |-> <<>>,
       d1 |-> None, d2 |-> None],
      [text |-> <<57, 48, 32, 100, 111, 108, 108, 97, 114, 115>>, phrases |-> <<>>, near |-> <<>>,
       d1 |-> None, d2 |-> None],
      [text |-> <<117, 110, 100, 101, 114, 32, 51, 48, 48, 32, 98, 101, 116, 119, 101, 101, 110, 32, 50, 48, 48, 32, 97, 110, 100, 32, 49, 48, 48, 32, 102, 114, 111, 109, 32, 109, 97, 121, 32, 53, 32, 116, 111, 32, 109, 97, 121, 32, 49>>, phrases |-> <<>>, near |-> <<>>,
       d1 |-> Naive(5), d2 |-> Naive(1)],
      [text |-> <<50, 32, 110, 105, 103, 104, 116, 115>>, phrases |-> <<>>, near |-> <<>>,
       d1 |-> None, d2 |-> None] }

\* POST /search with such a query, the first request after startup
PriceRequest ==
    /\ pc = "ready"
    /\ \E q \in QueriesOf(PriceTexts) : \E mem_high \in BOOLEAN : Answered(q, mem_high)
    /\ pc' = "answered"
    /\ OnCopies
    /\ UNCHANGED <<spec0, result0, calls, located, loop, reqs>>

NextPrice ==
    \/ PrepareAmenitiesNorm
    \/ BuildAmenityClusters
    \/ BuildLabelPools
    \/ LoadEmbeddings
    \/ BuildTfidfIndex
    \/ BuildAmenitiesCanon
    \/ PriceRequest

SpecPrice == InitSearch /\ [][NextPrice]_vars

(* The search endpoint over many requests: the parse cache fills and evicts,
   and the days pass.  The clock of the loop is in seconds. *)

MaxKeys == 50
MaxDays == 1
Slack == 2

Day == 24 * 60 * 60

\* the day of the month datetime.now() is in, the server started on the 1st
Today == 1 + (loop.now \div Day)

DecimalOf(k) == IF k < 10 THEN <<48 + k>> ELSE <<48 + (k \div 10), 48 + (k % 10)>>

\* a query with the similarities of a text far from every label
FarQuery(text, phrases, d1, d2) ==
    [text |-> text, phrases |-> phrases, d1 |-> d1, d2 |-> d2, encode_raises |-> FALSE,
     canon |-> [i \in DOMAIN phrases |-> [j \in DOMAIN CANON_LIST |-> 10]],
     group |-> FarRows(Len(phrases) + 1, Len(pools.group_norm)),
     neigh |-> FarRows(Len(phrases) + 1, Len(pools.neigh_norm)),
     room |-> FarRows(Len(phrases) + 1, Len(pools.room_norm)),
     prop |-> FarRows(Len(phrases) + 1, Len(pools.prop_norm)),
     sem_cos |-> <<600, 200, 600>>,
     lex_raw |-> <<500, 0, 500>>]

\* "<k> guests"
GuestsText(k) == DecimalOf(k) \o <<32, 103, 117, 101, 115, 116, 115>>

GuestsQuery(k) == FarQuery(GuestsText(k), <<<<103, 117, 101, 115, 116, 115>>>>, None, None)

\* "from today to may 4" as dateparser resolves it on the day of the call
TodayText == <<102, 114, 111, 109, 32, 116, 111, 100, 97, 121, 32, 116, 111, 32, 109, 97, 121, 32, 52>>

TodayQuery == FarQuery(TodayText, <<>>, Naive(Today), Naive(4))

\* the guest counts of the cached specs
Asked(c) == {c[i].value[6][1] : i \in {j \in DOMAIN c : c[j].value[6] # None}}

NextKey(c) == 1 + Cardinality({k \in 1..MaxKeys : \E a \in Asked(c) : k <= a})

\* the requests that can come: the guests query not yet asked, or, once the
\* cache is within Slack entries of its size, the first query again or the
\* query asked day after day
CacheQueries ==
    {GuestsQuery(k) : k \in {NextKey(cache)} \cap 1..MaxKeys}
        \cup (IF Len(cache) + Slack >= CacheSize THEN {GuestsQuery(1), TodayQuery} ELSE {})

InitCache == Loaded(QueryAmenities, QueryListings)

\* POST /search, any number of times
CachedSearch ==
    /\ pc \in {"ready", "answered"}
    /\ \E q \in CacheQueries : Answered(q, FALSE)
    /\ pc' = "answered"
    /\ OnCopies
    /\ UNCHANGED <<spec0, result0, calls, located, loop, reqs>>

\* the wall clock passes midnight while the server is idle
Midnight ==
    /\ pc \in {"ready", "answered"}
    /\ loop.now < MaxDays * Day
    /\ loop' = [loop EXCEPT !.now = (Today - 1) * Day + Day]
    /\ UNCHANGED <<pc, filterVars, rankVars, buildVars, queryVars, cache, reqs>>

NextCache ==
    \/ PrepareAmenitiesNorm
    \/ BuildAmenityClusters
    \/ BuildLabelPools
    \/ LoadEmbeddings
    \/ BuildTfidfIndex
    \/ BuildAmenitiesCanon
    \/ CachedSearch
    \/ Midnight

SpecCache == InitCache /\ [][NextCache]_vars

-----------------------------------------------------------------------------
(* The search endpoint on the event loop: search (main.py, lines 355-450)
   as the coroutine it is.  search_with_timeout has no await in it, so its
   whole body (parse, filter, rank) is one step of the loop; what that step
   computes is abstracted to the seconds it takes and the status it ends in.

   The repository pins neither the Python version nor the loop
   implementation: asyncio.wait_for is the one of Python up to 3.11 (a waiter
   future released by the task or by the timer) or the one of 3.12 on (the
   timeout() context manager, which cancels the waiting task), and a due
   timer runs after the handles that are ready (asyncio) or before them
   (uvloop, which uvicorn takes when it is installed). *)

MaxReqs == 2

\* asyncio.wait_for(search_with_timeout(), timeout=25.0)
SearchTimeout == 25

\* the seconds search_with_timeout takes on a query
Durations == {10, 30}

\* what search_with_timeout ends in: a SearchResponse, or an exception that
\* the last handler turns into HTTP 500
Endings == {200, 500}

Handle(k, r) == [k |-> k, r |-> r]

\* a request as uvicorn hands it to the application
NewRequest(dur, ending, now) ==
    [dur |-> dur, ending |-> ending, sent |-> now, phase |-> "queued",
     inner |-> "pending", released |-> FALSE, status |-> 0, at |-> 0]

Queue(lp, h) == [lp EXCEPT !.ready = Append(@, h)]

\* return result / raise HTTPException: the response leaves at the loop's time
\* and the finally of wait_for, or __aexit__, cancels the timer
Respond(lp, rq, r, status) ==
    [loop |-> [lp EXCEPT !.timers = {t \in @ : t.r # r}],
     reqs |-> [rq EXCEPT ![r].phase = "responded", ![r].status = status, ![r].at = lp.now]]

\* lines 364-422: the handler up to `await asyncio.wait_for(...)`: the
\* coroutine becomes a task whose first step is queued, and the timer is set
RunHandler(lp, rq, r) ==
    [loop |-> [lp EXCEPT !.ready = Append(@, Handle("inner", r)),
                         !.timers = @ \cup {[at |-> lp.now + SearchTimeout, r |-> r]}],
     reqs |-> [rq EXCEPT ![r].phase = "waiting"]]

\* the callback the finished task queues: the release of the waiter (up to
\* 3.11) or the wakeup of the waiting handler (3.12 on)
DoneCallback(lp, r) == Handle(IF lp.wait_for = "waiter" THEN "release" ELSE "wakeup", r)

\* the first step of the task of search_with_timeout: the whole search, lines
\* 372-419, during which the loop runs nothing else; a task cancelled before
\* its first step never runs the search
RunInner(lp, rq, r) ==
    IF rq[r].inner = "pending"
    THEN [loop |-> Queue([lp EXCEPT !.now = @ + rq[r].dur], DoneCallback(lp, r)),
          reqs |-> [rq EXCEPT ![r].inner = "done"]]
    ELSE [loop |-> Queue(lp, Handle("wakeup", r)),
          reqs |-> [rq EXCEPT ![r].inner = "cancelled"]]

\* _release_waiter(waiter): called by the finished task and by the timer
RunRelease(lp, rq, r) ==
    IF rq[r].phase = "waiting" /\ ~rq[r].released
    THEN [loop |-> Queue(lp, Handle("wakeup", r)),
          reqs |-> [rq EXCEPT ![r].released = TRUE]]
    ELSE [loop |-> lp, reqs |-> rq]

\* Timeout._on_timeout: the waiting handler is cancelled; a task that has not
\* begun takes the cancellation in its place
RunOnTimeout(lp, rq, r) ==
    IF rq[r].phase = "waiting"
    THEN [loop |-> lp,
          reqs |-> [rq EXCEPT ![r].released = TRUE,
                              ![r].inner = IF @ = "pending" THEN "cancel_requested" ELSE @]]
    ELSE [loop |-> lp, reqs |-> rq]

\* the handler resumes in wait_for, up to 3.11: the result of a finished
\* task is returned; an unfinished one is cancelled and awaited
WakeWaiter(lp, rq, r) ==
    IF rq[r].inner = "done" THEN Respond(lp, rq, r, rq[r].ending)
    ELSE IF rq[r].inner = "cancelled" THEN Respond(lp, rq, r, 504)
    ELSE [loop |-> lp, reqs |-> [rq EXCEPT ![r].inner = "cancel_requested"]]

\* the handler resumes in wait_for, 3.12 on: after _on_timeout it resumes
\* with CancelledError, which __aexit__ turns into TimeoutError
WakeTimeoutCm(lp, rq, r) ==
    IF rq[r].released THEN Respond(lp, rq, r, 504)
    ELSE Respond(lp, rq, r, rq[r].ending)

\* handle._run()
RunHandleOf(lp, rq, h) ==
    CASE h.k = "handler" -> RunHandler(lp, rq, h.r)
      [] h.k = "inner" -> RunInner(lp, rq, h.r)
      [] h.k = "release" -> RunRelease(lp, rq, h.r)
      [] h.k = "timeout" ->
            IF lp.wait_for = "waiter" THEN RunRelease(lp, rq, h.r)
            ELSE RunOnTimeout(lp, rq, h.r)
      [] h.k = "wakeup" ->
            IF rq[h.r].phase # "waiting" THEN [loop |-> lp, reqs |-> rq]
            ELSE IF lp.wait_for = "waiter" THEN WakeWaiter(lp, rq, h.r)
            ELSE WakeTimeoutCm(lp, rq, h.r)

\* the timers that are due at time t, the earliest first
DueAt(timers, t) ==
    LET due == {x \in timers : x.at <= t}
    IN  [k \in 1..Cardinality(due) |->
            CHOOSE x \in due :
                Cardinality({y \in due : y.at < x.at \/ (y.at = x.at /\ y.r < x.r)}) = k - 1]

Earliest(timers) == CHOOSE t \in {x.at : x \in timers} : \A x \in timers : t <= x.at

\* the time after select(): the loop sleeps until the first timer when
\* nothing is ready
Woken(lp) ==
    IF lp.ready = <<>> /\ lp.timers # {} /\ Earliest(lp.timers) > lp.now
    THEN Earliest(lp.timers) ELSE lp.now

TimerHandles(due) == [k \in DOMAIN due |-> Handle("timeout", due[k].r)]

\* the head of _run_once: the due timers join the ready handles, and the
\* handles ready now are the ones this iteration runs
Polled(lp, due) ==
    [lp EXCEPT !.now = Woken(lp),
               !.timers = @ \ Range(due),
               !.ready = IF lp.timers_first THEN TimerHandles(due) \o @
                         ELSE @ \o TimerHandles(due),
               !.todo = Len(lp.ready) + Len(due)]

InitLoop ==
    /\ pc = "serving"
    /\ IdleFilter
    /\ IdleRank
    /\ IdleBuild
    /\ IdleQuery
    /\ cache = <<>>
    /\ reqs = <<>>
    /\ \E w \in {"waiter", "timeout_cm"} : \E tf \in BOOLEAN :
          loop = [IdleLoop EXCEPT !.wait_for = w, !.timers_first = tf]

\* a POST /search arrives: the I/O event queues the first step of its handler
Receive ==
    /\ pc = "serving"
    /\ loop.todo = 0
    /\ Len(reqs) < MaxReqs
    /\ \E dur \in Durations : \E ending \in Endings :
          reqs' = Append(reqs, NewRequest(dur, ending, loop.now))
    /\ loop' = Queue(loop, Handle("handler", Len(reqs) + 1))
    /\ UNCHANGED <<pc, filterVars, rankVars, buildVars, queryVars, cache>>

\* _run_once, up to the handles it is going to run
RunOnce ==
    /\ pc = "serving"
    /\ loop.todo = 0
    /\ loop.ready # <<>> \/ loop.timers # {}
    /\ loop' = Polled(loop, DueAt(loop.timers, Woken(loop)))
    /\ UNCHANGED <<pc, filterVars, rankVars, buildVars, queryVars, cache, reqs>>

\* _run_once, one handle of the iteration
RunHandle ==
    /\ pc = "serving"
    /\ loop.todo > 0
    /\ \E out \in {RunHandleOf([loop EXCEPT !.ready = Tail(@), !.todo = @ - 1],
                               reqs, Head(loop.ready))} :
          /\ loop' = out.loop
          /\ reqs' = out.reqs
    /\ UNCHANGED <<pc, filterVars, rankVars, buildVars, queryVars, cache>>

NextLoop == Receive \/ RunOnce \/ RunHandle

SpecLoop == InitLoop /\ [][NextLoop]_vars

-----------------------------------------------------------------------------
(* Claims about the filter engine *)

Returned == pc \in {"filtered", "relaxed"} /\ result.status = "ok"

KeptRows == {corpus.rows[result.rows[k]] : k \in DOMAIN result.rows}

IsSubsequence(idx, n) ==
    /\ \A k \in DOMAIN idx : idx[k] \in 1..n
    /\ \A j, k \in DOMAIN idx : j < k => idx[j] < idx[k]

SatisfiesSpec(row, sp, cols) ==
    /\ sp.neigh_groups # <<>> =>
         \E i \in DOMAIN sp.neigh_groups :
            sp.neigh_groups[i] = norm_txt(row.neighbourhood_group_cleansed)
    /\ sp.neighbourhoods # <<>> =>
         \E i \in DOMAIN sp.neighbourhoods :
            sp.neighbourhoods[i] = norm_txt(row.neighbourhood_cleansed)
    /\ sp.guests # None => row.accommodates >= sp.guests[1]
    /\ (sp.nights # None /\ {"minimum_nights", "maximum_nights"} \subseteq cols) =>
         /\ row.minimum_nights # None /\ row.minimum_nights[1] <= sp.nights[1]
         /\ row.maximum_nights # None /\ sp.nights[1] <= row.maximum_nights[1]
    /\ sp.price_min # None => row.price >= sp.price_min[1]
    /\ sp.price_max # None => row.price <= sp.price_max[1]
    /\ sp.room_type # None => norm_txt(row.room_type) = norm_txt(sp.room_type[1])
    /\ sp.property_type # None =>
         Contains(norm_txt(row.property_type), norm_txt(sp.property_type[1]))
    /\ Range(sp.amenities_all) \subseteq Range(row.amenities_canon)

\* C1: whenever apply_filters_ml returns, the kept index labels are a
\* subsequence of the corpus index (increasing, in range, hence no duplicate
\* and no invented row), and every kept listing satisfies every predicate
\* present in the spec: group and neighbourhood membership, accommodates >=
\* guests, minimum_nights <= nights <= maximum_nights (on a corpus that
\* carries both night columns), price_min <= price <= price_max, normalized
\* room-type equality, normalized property-type substring, and the listing's
\* canonical amenities a superset of the requested ones.
C1_FilterSound ==
    Returned =>
        /\ IsSubsequence(result.rows, Len(corpus.rows))
        /\ \A row \in KeptRows : SatisfiesSpec(row, spec, corpus.cols)

\* C1 witness: a call with every field present that keeps one listing of two
C1_Witness ==
    /\ pc = "filtered" /\ result.status = "ok"
    /\ \A f \in SpecFields : ~Absent(spec, f)
    /\ Len(corpus.rows) = 2 /\ Len(result.rows) = 1

\* C2: a call on the spec with one present field set absent returns every
\* listing the call on the original spec returned.
C2_Monotone ==
    (pc = "relaxed" /\ result0.status = "ok") =>
        /\ result.status = "ok"
        /\ Range(result0.rows) \subseteq Range(result.rows)

\* C2 witness: removing a predicate strictly enlarged a non-empty result
C2_Witness ==
    /\ pc = "relaxed" /\ result0.status = "ok" /\ result.status = "ok"
    /\ result0.rows # <<>>
    /\ Len(result.rows) > Len(result0.rows)

\* C11: a call of apply_filters_ml ends in the ValueError exactly when the
\* spec asks for at least one amenity and the corpus has no amenities_canon
\* column; the failed call returns no rows; and no call changes the corpus.
C11_DataContract ==
    /\ [](pc \in {"filtered", "relaxed"} =>
            /\ result.status = "ValueError" <=>
                  (spec.amenities_all # <<>> /\ "amenities_canon" \notin corpus.cols)
            /\ result.status = "ValueError" => result.rows = <<>>
            /\ result.status \in {"ok", "ValueError"})
    /\ [][corpus' = corpus]_vars

\* C11 witness: the call for an amenity failed on a corpus without the column
\* and, with the amenity dropped from the spec, it returned listings
C11_Witness ==
    /\ pc = "relaxed"
    /\ "amenities_canon" \notin corpus.cols
    /\ result0.status = "ValueError" /\ spec0.amenities_all # <<>>
    /\ result.status = "ok" /\ result.rows # <<>>

AllRows == [i \in 1..Len(corpus.rows) |-> i]

\* C3 as claimed: with every field of the spec absent, apply_filters_ml
\* returns every listing of the corpus.
C3_AsClaimed ==
    (pc = "filtered" /\ spec = EmptySpec) =>
        (result.status = "ok" /\ result.rows = AllRows)

\* C3 amended: with every field of the spec absent, apply_filters_ml returns
\* exactly the listings whose has_availability is True when the corpus has
\* that column, and every listing when it has not; no other condition
\* excludes a listing.
C3_EmptySpecKeepsAvailable ==
    (pc = "filtered" /\ spec = EmptySpec) =>
        /\ result.status = "ok"
        /\ IsSubsequence(result.rows, Len(corpus.rows))
        /\ \A i \in 1..Len(corpus.rows) :
              i \in Range(result.rows) <=>
                 ("has_availability" \in corpus.cols =>
                     corpus.rows[i].has_availability = Some(TRUE))

\* C3 witness: an empty spec on a corpus with the availability column, where
\* an unavailable listing was left out and an available one kept
C3_Witness ==
    /\ pc = "filtered" /\ spec = EmptySpec
    /\ "has_availability" \in corpus.cols
    /\ Len(corpus.rows) = 2 /\ Len(result.rows) = 1

-----------------------------------------------------------------------------
(* Claims about the ranker *)

\* C4 as claimed: after a rerank of a non-empty candidate set, the composite
\* score of every candidate is a defined number in [0,1].
C4_ScoreBounds ==
    (pc = "ranked" /\ cand # <<>>) =>
        \A k \in DOMAIN score :
            score[k] # None /\ score[k][1] >= 0 /\ score[k][1] <= 100 * 1000

\* the score and sort columns of the candidate with index label i
ScoreAt(i) == score[CHOOSE k \in DOMAIN cand : cand[k] = i]
PosIn(s, i) == CHOOSE k \in DOMAIN s : s[k] = i

\* x is not worse than y in a descending column where a missing value is last
DescGeq(x, y) == y = None \/ (x # None /\ x[1] >= y[1])

\* C5: the output is a permutation of the candidates ordered by descending
\* composite score, ties broken by descending rating, then by ascending
\* price (a missing score or rating sorts last); two candidates equal on all
\* three keep their input order.
C5_OrderedAndStable ==
    pc = "ranked" =>
        /\ Len(ranked) = Len(cand)
        /\ Range(ranked) = Range(cand)
        /\ \A i, j \in DOMAIN ranked : i < j =>
            LET a == ranked[i]
                b == ranked[j]
            IN  /\ DescGeq(ScoreAt(a), ScoreAt(b))
                /\ ScoreAt(a) = ScoreAt(b) =>
                     /\ DescGeq(index[a].review_scores_rating, index[b].review_scores_rating)
                     /\ index[a].review_scores_rating = index[b].review_scores_rating =>
                          /\ index[a].price <= index[b].price
                          /\ index[a].price = index[b].price =>
                               PosIn(cand, a) < PosIn(cand, b)

\* C5 witness: three candidates with equal scores, two of which tie on rating
\* and price as well, came out in an order other than the input's
C5_Witness ==
    /\ pc = "ranked" /\ Len(cand) = 3
    /\ \A k \in DOMAIN score : score[k] # None /\ score[k] = score[1]
    /\ \E a, b \in Range(cand) :
          /\ a # b
          /\ index[a].review_scores_rating = index[b].review_scores_rating
          /\ index[a].price = index[b].price
    /\ ranked # cand

-----------------------------------------------------------------------------
(* Claims about the amenity canonicalizer *)

Built == pc \in {"clustered", "ready"} /\ ALL_AMEN_TOKENS # <<>>

\* C6: for every token x of the built vocabulary the representative of x is
\* itself a token whose representative is the same label
\* (AMEN_CANON[AMEN_CANON[x]] = AMEN_CANON[x]), and every representative is a
\* member of the family it represents: it lies in the cluster it was chosen
\* for and in the member set recorded under its own name.
C6_Idempotent ==
    Built =>
        /\ \A x \in DOMAIN AMEN_CANON :
              /\ AMEN_CANON[x] \in DOMAIN AMEN_CANON
              /\ AMEN_CANON[AMEN_CANON[x]] = AMEN_CANON[x]
              /\ AMEN_CLUSTER_ID[AMEN_CANON[x]] = AMEN_CLUSTER_ID[x]
        /\ \A k \in DOMAIN CANON_LIST :
              /\ CANON_LIST[k] \in DOMAIN CANON_MEMBERS
              /\ CANON_LIST[k] \in CANON_MEMBERS[CANON_LIST[k]]

\* a built vocabulary with a family of several tokens, one of them not its own
\* representative
C6_Witness ==
    /\ Built
    /\ \E x \in DOMAIN AMEN_CANON : AMEN_CANON[x] # x

\* the tokens the build observes in listing i
Observed(i) == Range(RowTokens(df_amen[i].amenities_norm))

\* C7: after a completed build over a corpus with at least one amenity
\* string, every observed token is a key of AMEN_CANON, lies in the member set
\* of exactly one catalog label, and its canonical amenity is in the
\* amenities_canon set of every listing that carries the token.
C7_Totality ==
    (pc = "ready" /\ ALL_AMEN_TOKENS # <<>>) =>
        \A i \in DOMAIN df_amen : \A t \in Observed(i) :
            /\ t \in DOMAIN AMEN_CANON
            /\ Cardinality({c \in Range(CANON_LIST) : t \in CANON_MEMBERS[c]}) = 1
            /\ AMEN_CANON[t] \in Range(df_amen[i].amenities_canon)

\* The part of C7 the build does keep: the map is total, the member sets
\* partition the vocabulary, and only a family whose representative is the
\* empty string is missing from a listing's amenities_canon.
C7_TotalMap ==
    (pc = "ready" /\ ALL_AMEN_TOKENS # <<>>) =>
        \A i \in DOMAIN df_amen : \A t \in Observed(i) :
            /\ t \in DOMAIN AMEN_CANON
            /\ Cardinality({c \in Range(CANON_LIST) : t \in CANON_MEMBERS[c]}) = 1
            /\ AMEN_CANON[t] # <<>> => AMEN_CANON[t] \in Range(df_amen[i].amenities_canon)

-----------------------------------------------------------------------------
(* Claims about the entity extractor *)

\* C8 as stated: between two calls of the same extractor on the same query and
\* indices, the one with the larger th_margin returns no match the other did
\* not return.
C8_AsClaimed ==
    \A a \in calls : \A b \in calls :
        (a.fn = b.fn /\ a.th_margin <= b.th_margin) => b.out \subseteq a.out

\* C8: between two calls of the same extractor on the same query and indices,
\* the one with the larger th_margin never returns more matches; for
\* canonical_amenities_from_query it returns no match the other did not.
C8_MarginMonotone ==
    \A a \in calls : \A b \in calls :
        (a.fn = b.fn /\ a.th_margin <= b.th_margin) =>
            /\ Cardinality(b.out) <= Cardinality(a.out)
            /\ a.fn = "canonical_amenities_from_query" => b.out \subseteq a.out

\* the margin was raised between two calls of an extractor, and a match
\* returned at the lower margin was lost at the higher
C8_Witness ==
    \E a \in calls : \E b \in calls :
        /\ a.fn = b.fn
        /\ a.th_margin < b.th_margin
        /\ a.out # {}
        /\ Cardinality(b.out) < Cardinality(a.out)

\* neighbourhood n is recorded under group g in the corpus
InGroup(g, n) ==
    \E i \in DOMAIN corpus.rows :
        /\ corpus.rows[i].neighbourhood_group_cleansed # NaN
        /\ corpus.rows[i].neighbourhood_cleansed # NaN
        /\ norm_txt(corpus.rows[i].neighbourhood_group_cleansed) = g
        /\ norm_txt(corpus.rows[i].neighbourhood_cleansed) = n

\* C9: when a group is matched, the neighbourhoods returned are exactly the
\* matched neighbourhoods that the corpus records under a matched group; when
\* no group is matched, they are the matched neighbourhoods, all of them.
C9_LocationResolution ==
    pc = "located" =>
        /\ located.groups = MatchedGroups(query, 60)
        /\ located.groups # {} =>
              located.neighs = { n \in MatchedNeighs(query, 68) :
                                   \E g \in located.groups : InGroup(g, n) }
        /\ located.groups = {} => located.neighs = MatchedNeighs(query, 68)

\* group "centro" is matched, neighbourhood "centro" of that group is returned
\* and another matched neighbourhood, of no matched group, is dropped
C9_Witness ==
    /\ pc = "located"
    /\ <<99, 101, 110, 116, 114, 111>> \in located.groups
    /\ <<99, 101, 110, 116, 114, 111>> \in located.neighs
    /\ MatchedNeighs(query, 68) \ located.neighs # {}

\* no group is matched and a matched neighbourhood is returned unfiltered
C9_WitnessNoGroup ==
    /\ pc = "located"
    /\ located.groups = {}
    /\ located.neighs # {}

-----------------------------------------------------------------------------
(* Claims about the query parser *)

\* the sub-extractors that raise on query q
Failing(q) ==
    (IF q.encode_raises /\ CANON_LIST # <<>> /\ q.phrases # <<>> THEN {"amenities"} ELSE {})
    \cup (IF q.encode_raises THEN {"location", "room_type", "property_type"} ELSE {})
    \cup (IF maybe_parse_dates_en(q).raised THEN {"dates"} ELSE {})

\* C10: when one sub-extractor raises on a query, the search is answered, the
\* field of that sub-extractor is absent from the parsed spec and the other
\* fields hold what their own extractors return.
C10_FailureContained ==
    (pc = "answered" /\ Strip(query.text) # <<>> /\ Cardinality(Failing(query)) = 1) =>
        /\ response.status = 200
        /\ "dates" \in Failing(query) =>
              /\ response.body.parsed_filters =
                    ParsedOf(query, neighborhoods_groups_from_query(query, 68, 60),
                             extract_guests_nights_en(query.text),
                             extract_price_range_en(query.text), NoDates)

\* a search whose parse met no failure is answered with the parsed spec
C10_ParseAnswered ==
    (pc = "answered" /\ Strip(query.text) # <<>> /\ Failing(query) = {}) =>
        /\ response.status = 200
        /\ response.body.parsed_filters = parse_user_query_ml(query).spec

-----------------------------------------------------------------------------
(* Claims about the search endpoint on the event loop *)

Responded(r) == r \in DOMAIN reqs /\ reqs[r].phase = "responded"

\* C12: a search whose processing takes longer than the 25 seconds is answered
\* with HTTP 504, never with a result.
C12_TimeoutReported ==
    \A r \in DOMAIN reqs :
        (Responded(r) /\ reqs[r].inner = "done" /\ reqs[r].dur > SearchTimeout) =>
            reqs[r].status = 504

\* the status request r is answered with when it is the only request: what
\* its search ends in, or 504 where a search past the bound loses its result
AloneStatus(r) ==
    IF loop.wait_for = "timeout_cm" /\ loop.timers_first /\ reqs[r].dur > SearchTimeout
    THEN 504 ELSE reqs[r].ending

\* C13: with any number of searches in progress, each is answered no later
\* than its own processing time after it was sent, and with the status it
\* is answered with when it is run alone.
C13_Isolation ==
    \A r \in DOMAIN reqs :
        Responded(r) =>
            /\ reqs[r].at - reqs[r].sent <= reqs[r].dur
            /\ reqs[r].status = AloneStatus(r)

\* a search alone on the loop is answered after its own processing time, with
\* its own status
C13_AloneBaseline ==
    (Len(reqs) = 1 /\ Responded(1) /\ loop.ready = <<>>) =>
        /\ reqs[1].at - reqs[1].sent = reqs[1].dur
        /\ reqs[1].status = AloneStatus(1)

(* Claims about the server over many requests *)

Serving == pc \in {"ready", "answered"}

KeysAfter(ks, k) ==
    IF \E i \in DOMAIN ks : ks[i] = k
    THEN SelectSeq(ks, LAMBDA x : x # k) \o <<k>>
    ELSE (IF Len(ks) = CacheSize THEN Tail(ks) ELSE ks) \o <<k>>

LRUStep ==
    pc' = "answered" =>
        /\ Keys(cache') = KeysAfter(Keys(cache), Strip(query'.text))
        /\ \A i \in DOMAIN cache : \A j \in DOMAIN cache' :
               cache[i].key = cache'[j].key => cache[i].value = cache'[j].value

\* C15: the parse cache never holds more than 50 entries nor two entries for
\* one stripped query; a request for a cached query makes its entry the most
\* recent, a request for a new query drops the least recently used entry of
\* a full cache and no other, and an entry keeps its content while it is in
\* the cache.
C15_CacheBound ==
    /\ [](/\ Len(cache) <= CacheSize
          /\ \A i \in DOMAIN cache : \A j \in DOMAIN cache :
                 cache[i].key = cache[j].key => i = j
          /\ \A i \in DOMAIN cache : cache[i].key = Strip(cache[i].key))
    /\ [][LRUStep]_vars

C15_Witness ==
    /\ Len(cache) = CacheSize
    /\ cache[1].key = GuestsText(3)
    /\ cache[CacheSize - 1].key = GuestsText(1)
    /\ cache[CacheSize].key = TodayText

\* the answer of a server without the parse cache: parsed afresh each time
Uncached(q) ==
    AfterParse(q, Reparsed(q, parse_user_query_ml(q), parse_user_query_ml(q)), FALSE).response

\* C16: every request is answered with the parsed spec and the listings that
\* a server without the parse cache gives for it.
C16_CacheTransparent == pc = "answered" => response = Uncached(query)

\* on the day the server started, the cache changes no answer
C16_SameDay == (pc = "answered" /\ Today = 1) => response = Uncached(query)

(* Claims about the parsed spec *)

Parsed == pc = "answered" /\ response.status = 200

WellFormed(sp) ==
    /\ (sp.price_min # None /\ sp.price_max # None) => Val(sp.price_min) <= Val(sp.price_max)
    /\ sp.checkin = None <=> sp.checkout = None
    /\ sp.checkin # None => Instant(Val(sp.checkout)) > Instant(Val(sp.checkin))
    /\ sp.guests # None => Val(sp.guests) \in Nat
    /\ sp.nights # None => Val(sp.nights) \in Nat

\* C17: in every spec the parser returns, price_min <= price_max when both
\* are present, check-in and check-out are both present or both absent with
\* check-out after check-in, the night count derived from the dates is at
\* least 1, and guests and nights are integers >= 0.
C17_WellFormed ==
    Parsed =>
        /\ WellFormed(spec)
        /\ maybe_parse_dates_en(query).nights # None =>
               Val(maybe_parse_dates_en(query).nights) >= 1

\* the same without the night count of the dates
C17_FieldsWellFormed == Parsed => WellFormed(spec)

Price == <<spec.price_min, spec.price_max>>

\* the amount group n of the first match of pattern re in the normalized query
AmountIn(re, n) ==
    ToInt(Val(Group(norm_txt(query.text), Val(Search(re, norm_txt(query.text))), n)))

Has(re) == Search(re, norm_txt(query.text)) # None

\* the amount of a pattern with two alternatives, one group each
EitherAmount(re) ==
    IF Group(norm_txt(query.text), Val(Search(re, norm_txt(query.text))), 1) # None
    THEN AmountIn(re, 1) ELSE AmountIn(re, 2)

\* C20: the price bounds are those of the first pattern, in the order
\* between, up to, at least, per night or budget, bare amount, that matches
\* anywhere in the text; with no match both bounds are absent.
C20_PricePriority ==
    Parsed =>
        /\ Has(PriceBetween) =>
               Price = <<Some(Min2(AmountIn(PriceBetween, 1), AmountIn(PriceBetween, 2))),
                         Some(Max2(AmountIn(PriceBetween, 1), AmountIn(PriceBetween, 2)))>>
        /\ (~Has(PriceBetween) /\ Has(PriceUpTo)) => Price = <<None, Some(AmountIn(PriceUpTo, 1))>>
        /\ (~Has(PriceBetween) /\ ~Has(PriceUpTo) /\ Has(PriceAtLeast)) =>
               Price = <<Some(AmountIn(PriceAtLeast, 1)), None>>
        /\ (~Has(PriceBetween) /\ ~Has(PriceUpTo) /\ ~Has(PriceAtLeast) /\ Has(PricePerNight)) =>
               Price = <<None, Some(EitherAmount(PricePerNight))>>
        /\ (~Has(PriceBetween) /\ ~Has(PriceUpTo) /\ ~Has(PriceAtLeast) /\ ~Has(PricePerNight)
              /\ Has(PriceBare)) =>
               Price = <<None, Some(EitherAmount(PriceBare))>>
        /\ (~Has(PriceBetween) /\ ~Has(PriceUpTo) /\ ~Has(PriceAtLeast) /\ ~Has(PricePerNight)
              /\ ~Has(PriceBare)) =>
               Price = <<None, None>>

\* "over 50 under 100": the later phrase is of the earlier pattern
C20_Witness ==
    /\ Parsed
    /\ Has(PriceUpTo) /\ Has(PriceAtLeast)
    /\ Val(Search(PriceAtLeast, norm_txt(query.text))).caps[1][1]
           < Val(Search(PriceUpTo, norm_txt(query.text))).caps[1][1]
    /\ Price = <<None, Some(100)>>

(* Claims about the acceptance rules of the extractors *)

\* label a is the best match of a phrase of the query, or what CANON_MERGE
\* makes of that best match, and the best match passes the thresholds
PassesFor(a, th_abs, th_margin) ==
    \E i \in DOMAIN query.phrases :
        /\ best_two(query.canon[i]).j >= 0
        /\ a \in {CANON_LIST[best_two(query.canon[i]).j + 1]}
                 \cup {CANON_MERGE[h] : h \in {CANON_LIST[best_two(query.canon[i]).j + 1]}
                                                \cap DOMAIN CANON_MERGE}
        /\ SemanticGate(best_two(query.canon[i]), th_abs, th_margin)

\* C18: every amenity canonical_amenities_from_query returns is, for some
\* phrase of the query, the best match with m1 >= th_abs and (m2 < 0 or
\* m1 - m2 >= th_margin).
C18_AcceptanceRule ==
    \A c \in calls :
        c.fn = "canonical_amenities_from_query" =>
            \A a \in c.out : PassesFor(a, 60, c.th_margin)

\* an amenity that is returned is the best match of some phrase
C18_BestMatchOnly ==
    \A c \in calls :
        c.fn = "canonical_amenities_from_query" =>
            \A a \in c.out : PassesFor(a, -100, -200)

\* label lbl of the pool is the best match of a phrase or of the query,
\* at or above thr, with the margin over the second best, and shares a
\* content token with the phrase or the query
UniformFor(lbl, rows, pool, thr, margin) ==
    \E i \in DOMAIN rows :
        /\ best_two(rows[i]).j >= 0
        /\ pool[best_two(rows[i]).j + 1] = lbl
        /\ SemanticGate(best_two(rows[i]), thr, margin)
        /\ (content_tokens(WithQuery(query)[i]) \cup content_tokens(query.text))
               \cap FindLowerAlnum(lbl) # {}

\* C19: every group and every neighbourhood that
\* neighborhoods_groups_from_query returns is a best match at or above the
\* threshold of its pool, with the margin over the second best, and shares a
\* content token with the phrase or the query.
C19_UniformProtocol ==
    pc = "located" =>
        /\ \A g \in located.groups : UniformFor(g, query.group, pools.group_norm, 60, 6)
        /\ \A n \in located.neighs : UniformFor(n, query.neigh, pools.neigh_norm, 68, 6)

\* what the code does ask of a group: a best match at or above the
\* threshold, or its name in the normalized query
C19_GroupsAsCoded ==
    pc = "located" =>
        \A g \in located.groups :
            \/ \E i \in DOMAIN query.group :
                   /\ best_two(query.group[i]).m1 >= 60
                   /\ pools.group_norm[best_two(query.group[i]).j + 1] = g
            \/ Contains(norm_txt(query.text), g)

(* Claims about the representative of a cluster *)

\* token c comes before token u: more frequent, or as frequent and shorter,
\* or as frequent and as long and lexicographically smaller
Represents(c, u) ==
    \/ tok_freq[c] > tok_freq[u]
    \/ tok_freq[c] = tok_freq[u] /\ Len(c) < Len(u)
    \/ tok_freq[c] = tok_freq[u] /\ Len(c) = Len(u) /\ LexLess(c, u)

\* C21: the representative of every cluster is its most frequent member, the
\* shortest of the most frequent, and the lexicographically smallest of
\* those.
C21_Representative ==
    Built =>
        \A t \in DOMAIN AMEN_CANON : \A u \in DOMAIN AMEN_CANON :
            (AMEN_CLUSTER_ID[u] = AMEN_CLUSTER_ID[t] /\ u # AMEN_CANON[t]) =>
                Represents(AMEN_CANON[t], u)

\* a cluster whose representative has a member of its frequency and length
C21_Witness ==
    /\ Built
    /\ \E t \in DOMAIN AMEN_CANON :
           /\ t # AMEN_CANON[t]
           /\ tok_freq[t] = tok_freq[AMEN_CANON[t]]
           /\ Len(t) = Len(AMEN_CANON[t])

\* a cluster whose representative is more frequent than a shorter member
C21_WitnessFrequency ==
    /\ Built
    /\ \E t \in DOMAIN AMEN_CANON :
           /\ tok_freq[t] < tok_freq[AMEN_CANON[t]]
           /\ Len(t) < Len(AMEN_CANON[t])

(* Claims about the size of the vocabulary *)

Clustering == pc \notin {"loaded", "normalized"} /\ ALL_AMEN_TOKENS # <<>>

\* C22: the build completes for every non-empty vocabulary, and for the
\* vocabulary "wifi router", "wi-fi", "high speed wifi" it puts the three
\* tokens in one cluster.
C22_SmallVocabulary ==
    Clustering =>
        /\ pc # "startup_failed"
        /\ Range(ALL_AMEN_TOKENS) = Range(SmallVocabulary) =>
               \A t \in DOMAIN AMEN_CANON : \A u \in DOMAIN AMEN_CANON :
                   AMEN_CANON[t] = AMEN_CANON[u]

\* the build completes for a vocabulary of at least 60 tokens, with the
\* cluster ids within K
C22_LargeVocabulary ==
    (Clustering /\ Len(ALL_AMEN_TOKENS) >= KMin) =>
        /\ pc # "startup_failed"
        /\ \A t \in DOMAIN AMEN_CLUSTER_ID :
               AMEN_CLUSTER_ID[t] \in 0..(ClusterCount(Len(ALL_AMEN_TOKENS)) - 1)

(* Claims about the signals of the ranker *)

Reranked == pc = "ranked" /\ cand # <<>>

Unpriced(k) == IsNone(PricePerGuest(index[cand[k]]))

\* the composite score of candidate k with the price signal at mid-value
NeutralScore(k) ==
    w_sem * SemSignal(index[cand[k]].sem_cos)
        + w_lex * lexical_similarities([i \in DOMAIN index |-> index[i].lex_raw])[cand[k]]
        + w_rating * RatingSignal(index[cand[k]]) + w_price * (1000 - 500)

\* C23: a candidate whose per-guest price cannot be computed (no
\* price_per_guest, accommodates missing or 0) gets the neutral mid-value
\* price signal, so its composite score is a defined number.
C23_NeutralPrice ==
    Reranked =>
        \A k \in DOMAIN cand :
            Unpriced(k) => (score[k] # None /\ score[k] = Some(NeutralScore(k)))

\* as coded: such a candidate has no score, and the ranking still completes,
\* with the candidate after every candidate that has a score
C23_UnscoredLast ==
    Reranked =>
        /\ Len(ranked) = Len(cand)
        /\ \A k \in DOMAIN cand :
              Unpriced(k) =>
                  /\ score[k] = None
                  /\ \A j \in DOMAIN cand :
                        score[j] # None => PosIn(ranked, cand[j]) < PosIn(ranked, cand[k])


\* the lexical signal that entered the score of candidate k
LexOf(k) ==
    (score[k][1] - w_sem * SemSignal(index[cand[k]].sem_cos)
                 - w_rating * RatingSignal(index[cand[k]])
                 - w_price * (1000 - PriceSignal(index, cand, k)[1])) \div w_lex

RawLex == {index[i].lex_raw : i \in DOMAIN index}

Flat == \A x \in RawLex : \A y \in RawLex : x = y

LowLex == CHOOSE x \in RawLex : \A y \in RawLex : x <= y
HighLex == CHOOSE x \in RawLex : \A y \in RawLex : y <= x

\* C24 as claimed: when the lexical similarities of the index are all equal,
\* the lexical signal is 0 for every listing.
C24_ZeroWhenFlat ==
    Reranked =>
        \A k \in DOMAIN cand : (score[k] # None /\ Flat) => LexOf(k) = 0

\* C24: the lexical signal of a candidate is its raw similarity min-max
\* rescaled over the whole index, whatever the candidate set, and lies in
\* [0,1]; when the similarities of the index are all equal nothing is divided
\* and the signal is that common raw similarity.
C24_LexicalSignal ==
    Reranked =>
        \A k \in DOMAIN cand :
            score[k] # None =>
                /\ LexOf(k) \in 0..1000
                /\ Flat => LexOf(k) = index[cand[k]].lex_raw
                /\ ~Flat => LexOf(k) = ((index[cand[k]].lex_raw - LowLex) * 1000)
                                           \div (HighLex - LowLex)

\* C24 witness: an index of equal non-zero similarities
C24_Witness ==
    /\ Reranked /\ Flat /\ Len(index) >= 2
    /\ \E k \in DOMAIN cand : score[k] # None /\ LexOf(k) > 0

\* a candidate set that holds neither the lowest nor the highest similarity
\* of the index
C24_WitnessSubset ==
    /\ Reranked /\ ~Flat /\ Len(cand) < Len(index)
    /\ \A k \in DOMAIN cand : score[k] # None /\ LexOf(k) \in 1..999


\* the rating signal that entered the score of candidate k
RatingOf(k) ==
    (score[k][1] - w_sem * SemSignal(index[cand[k]].sem_cos)
                 - w_lex * LexOf(k)
                 - w_price * (1000 - PriceSignal(index, cand, k)[1])) \div w_rating

\* C25: the rating signal is the rating over the highest rating of the scale
\* (5 stars, ratings being in tenths of a star): 1 for a listing rated 5.0,
\* 0 for a listing with no rating.
C25_RatingScale ==
    Reranked =>
        \A k \in DOMAIN cand :
            score[k] # None =>
                LET r == index[cand[k]].review_scores_rating
                IN  /\ r = None => RatingOf(k) = 0
                    /\ r # None => RatingOf(k) = (r[1] * 1000) \div 50

\* as coded: the rating over 100, at most 0.05 on the scale of 5 stars
C25_RatingOverHundred ==
    Reranked =>
        \A k \in DOMAIN cand :
            score[k] # None =>
                LET r == index[cand[k]].review_scores_rating
                IN  /\ r = None => RatingOf(k) = 0
                    /\ r # None => RatingOf(k) = r[1]

(* Claims about the persisted embeddings *)

Embedded == pc \in {"embedded", "indexed", "index_failed", "ready"}

\* C26: the listing embeddings have one row per listing of the current
\* corpus, in corpus order: each row is the embedding of the text of the
\* listing at its position, a file of another corpus being rebuilt.
C26_EmbeddingsOfCorpus ==
    Embedded =>
        /\ Len(listing_embeddings) = Len(corpus.rows)
        /\ listing_embeddings = encode([i \in DOMAIN df_text |-> concat_text(df_text[i])])

\* as coded: the embeddings are rebuilt from the listing texts and saved when
\* the file is absent or cannot be read, and are the rows of the file otherwise
C26_RebuiltWhenUnreadable ==
    [][(pc = "pooled" /\ pc' = "embedded") =>
          IF emb_file.exists /\ emb_file.loads
          THEN listing_embeddings' = emb_file.rows /\ emb_file' = emb_file
          ELSE /\ listing_embeddings' =
                     encode([i \in DOMAIN df_text |-> concat_text(df_text[i])])
               /\ emb_file' = [exists |-> TRUE, loads |-> TRUE, rows |-> listing_embeddings']]_vars

(* Claims about the label pools *)

PoolOf == [neigh_norm |-> "neighbourhood_cleansed", group_norm |-> "neighbourhood_group_cleansed",
           room_norm |-> "room_type", prop_norm |-> "property_type"]

NoRepeat(s) == \A i \in DOMAIN s : \A j \in DOMAIN s : s[i] = s[j] => i = j

\* C27: in each label pool every normalized value occurs exactly once.
C27_UniqueLabels ==
    \A p \in DOMAIN PoolOf : NoRepeat(pools[p])

\* as coded: a pool has one entry per distinct raw value of its column, and
\* holds the normalized values of the column
C27_OnePerRawValue ==
    pools # EmptyPools =>
        \A p \in DOMAIN PoolOf :
            LET raw == {corpus.rows[i][PoolOf[p]] :
                          i \in {k \in DOMAIN corpus.rows : corpus.rows[k][PoolOf[p]] # NaN}}
            IN  /\ Len(pools[p]) = Cardinality(raw)
                /\ Range(pools[p]) = {norm_txt(v) : v \in raw}

(* Claims about the order of startup *)

\* the steps of lifespan a position of the server has behind it: a startup
\* that failed stays where the failing step began
StageOf ==
    [loaded |-> 0, normalized |-> 1, startup_failed |-> 1, clustered |-> 2, pooled |-> 3,
     embedded |-> 4, index_failed |-> 4, indexed |-> 5, ready |-> 6, answered |-> 7]

Reached(p) == pc \in DOMAIN StageOf /\ StageOf[pc] >= StageOf[p]

\* C28: the build steps run in the order normalized amenities, amenity
\* clusters, label pools, listing embeddings, lexical index, canonical amenity
\* sets of the listings (from the finished mapping), and a search is answered
\* only after the last of them: what a step builds is there once the step is
\* behind, and not before.
C28_BuildBeforeQuery ==
    /\ pc \in DOMAIN StageOf
    /\ pc = "normalized" =>
          \A i \in DOMAIN df_amen :
              df_amen[i].amenities_norm = parse_amenities_to_list(df_amen[i].amenities)
    /\ ~Reached("normalized") => \A i \in DOMAIN df_amen : df_amen[i].amenities_norm = <<>>
    /\ Reached("clustered") => DOMAIN AMEN_CANON = Range(ALL_AMEN_TOKENS)
    /\ ~Reached("clustered") => AMEN_CANON = <<>>
    /\ corpus.rows # <<>> => (Reached("pooled") <=> pools # EmptyPools)
    /\ corpus.rows # <<>> => (Reached("embedded") <=> listing_embeddings # <<>>)
    /\ Reached("indexed") <=> (X_tfidf # <<>> /\ Len(X_tfidf) = Len(corpus.rows))
    /\ Reached("ready") <=> "amenities_canon" \in corpus.cols
    /\ pc = "ready" =>
          \A i \in DOMAIN corpus.rows :
              corpus.rows[i].amenities_canon =
                  CanonColumn(AMEN_CANON, df_amen[i].amenities_norm)
    /\ Reached("ready") =>
          \A i \in DOMAIN corpus.rows :
              corpus.rows[i].amenities_canon = df_amen[i].amenities_canon
    /\ Reached("answered") <=> response # NoResponse

\* C28 witness: a search answered with listings of a corpus with amenities
C28_Witness ==
    /\ pc = "answered" /\ response.status = 200 /\ ranked # <<>>
    /\ AMEN_CANON # <<>>
    /\ \E i \in DOMAIN corpus.rows : corpus.rows[i].amenities_canon # <<>>

(* Claims about merged labels *)

\* the labels a query can ask for: what canonical_amenities_from_query makes
\* of a catalog label
Merged(l) == IF l \in DOMAIN CANON_MERGE THEN CANON_MERGE[l] ELSE l

\* the catalog labels of the raw amenities of listing i
FamiliesOf(i) ==
    {AMEN_CANON[norm_txt(df_amen[i].amenities_norm[k])] :
        k \in {j \in DOMAIN df_amen[i].amenities_norm :
                  norm_txt(df_amen[i].amenities_norm[j]) \in DOMAIN AMEN_CANON}}

\* C29: a listing holding a raw amenity of a family merged into the label R
\* satisfies the amenity requirement R, and the labels of the listings'
\* canonical amenity sets are post-merge labels.
C29_MergedLabelSpace ==
    pc = "ready" =>
        \A i \in DOMAIN corpus.rows :
            /\ \A l \in FamiliesOf(i) \ {<<>>} :
                  amenities_family_satisfied(corpus.rows[i].amenities_canon, <<Merged(l)>>)
            /\ \A l \in Range(corpus.rows[i].amenities_canon) : Merged(l) = l

\* as coded: the listings' sets hold the catalog labels of their amenities,
\* before any merge
C29_CatalogLabels ==
    pc = "ready" =>
        \A i \in DOMAIN corpus.rows :
            Range(corpus.rows[i].amenities_canon) = FamiliesOf(i) \ {<<>>}

(* Claims about the night count *)

Dated == Parsed /\ spec.checkin # None /\ spec.checkout # None /\ spec.nights # None

\* the whole days from check-in to check-out
StayDays == (Instant(spec.checkout[1]) - Instant(spec.checkin[1])) \div 24

\* C30: in a returned spec with check-in, check-out and night count, the
\* night count is the number of days from check-in to check-out.
C30_NightsAgree ==
    Dated => spec.nights[1] = StayDays

\* as coded: the night count is that of the "N nights" phrase when the query
\* has one, and the days of the date range otherwise
C30_PhraseFirst ==
    Dated =>
        LET said == extract_guests_nights_en(query.text)[2]
        IN  spec.nights = IF said # None THEN said ELSE Some(StayDays)

=============================================================================
